---------------------------- MODULE Spec2Model ----------------------------
(***************************************************************************)
(* Model of ilograph-cli: the reference-expression language (parser and    *)
(* rewriter), the structural mutation engine over the in-memory document,  *)
(* the strict validator used as a write gate, and the MutationRunner       *)
(* transaction flow (lock, read, mutate, validate, compare-and-swap).      *)
(*                                                                         *)
(* Text values of the program (ids, names, reference expressions) are      *)
(* sequences of one-character strings, so that the character-level         *)
(* functions are computed as the code computes them.  A YAML mapping is a  *)
(* function whose DOMAIN is the set of keys present; key order inside a    *)
(* mapping is not represented.                                             *)
(***************************************************************************)
EXTENDS Integers, Sequences, FiniteSets, TLC

VARIABLES
    file,       \* content of the target diagram file (a Text value)
    lock,       \* holder of the advisory lock beside the file, 0 when free
    pc,         \* position of each command process inside MutationRunner
    cmd,        \* the command each process runs: [dry, ops]
    before,     \* text snapshot taken by read_text at the start of _run_once
    loaded,     \* document as parsed by load_document (second read)
    doc,        \* in-memory document being mutated
    k,          \* number of operations of the batch already applied
    chg,        \* running `changed` flag of apply_ops_batch
    outcome,    \* how the command ended
    wrote,      \* per process: has this run replaced the file
    atStart,    \* file content when the command started
    edits,      \* number of external edits performed so far
    mdoc,       \* mutation-engine harness: current document
    mprev,      \* mutation-engine harness: document before the last call
    mlast,      \* mutation-engine harness: last call and its result
    rw,         \* rewriter harness: inputs and last result
    pf          \* splitter and serializer harnesses: inputs and result

vars == <<file, lock, pc, cmd, before, loaded, doc, k, chg, outcome, wrote,
          atStart, edits, mdoc, mprev, mlast, rw, pf>>

runnerVars == <<file, lock, pc, cmd, before, loaded, doc, k, chg, outcome,
                wrote, atStart, edits>>
engineVars == <<mdoc, mprev, mlast>>

(***************************************************************************)
(* Characters and small string helpers.                                    *)
(***************************************************************************)
UpperLetters ==
    <<"A","B","C","D","E","F","G","H","I","J","K","L","M",
      "N","O","P","Q","R","S","T","U","V","W","X","Y","Z">>

LowerLetters ==
    <<"a","b","c","d","e","f","g","h","i","j","k","l","m",
      "n","o","p","q","r","s","t","u","v","w","x","y","z">>

Digits == {"0","1","2","3","4","5","6","7","8","9"}

Range(s) == { s[i] : i \in DOMAIN s }

\* _IDENT_BOUNDARY_CHARS = r"A-Za-z0-9_.:-"
IDENT_BOUNDARY_CHARS ==
    Range(UpperLetters) \cup Range(LowerLetters) \cup Digits
        \cup {"_", ".", ":", "-"}

RESTRICTED_RESOURCE_ID_CHARS == {"/", "^", "*", "[", "]", ","}

WhitespaceChars == {" ", "\t"}

IsSpace(c) == c \in WhitespaceChars

LowerChar(c) ==
    IF \E i \in DOMAIN UpperLetters : UpperLetters[i] = c
        THEN LowerLetters[CHOOSE i \in DOMAIN UpperLetters : UpperLetters[i] = c]
        ELSE c

Lower(s) == [i \in DOMAIN s |-> LowerChar(s[i])]

RECURSIVE LStrip(_)
LStrip(s) ==
    IF s # <<>> /\ IsSpace(s[1]) THEN LStrip(Tail(s)) ELSE s

RECURSIVE RStrip(_)
RStrip(s) ==
    IF s # <<>> /\ IsSpace(s[Len(s)]) THEN RStrip(SubSeq(s, 1, Len(s) - 1)) ELSE s

Strip(s) == LStrip(RStrip(s))

StartsWith(s, p) == Len(p) <= Len(s) /\ SubSeq(s, 1, Len(p)) = p

Drop(s, n) == SubSeq(s, n + 1, Len(s))

\* `sub in s` for Python strings.
Contains(s, sub) ==
    \E i \in 1..(Len(s) - Len(sub) + 1) : SubSeq(s, i, i + Len(sub) - 1) = sub

SPECIAL_REFERENCE_TOKENS == { <<"*">>, <<"n","o","n","e">>, <<"^">> }

NONE_TOKEN == <<"n","o","n","e">>

is_none_token(value) == Lower(Strip(value)) = NONE_TOKEN

(***************************************************************************)
(* split_reference_list: comma split aware of [] () and quotes.            *)
(***************************************************************************)
SplitInit ==
    [parts |-> <<>>, current |-> <<>>, square |-> 0, paren |-> 0,
     inSingle |-> FALSE, inDouble |-> FALSE, escaped |-> FALSE]

FlushSegment(st) ==
    LET segment == Strip(st.current)
    IN  [st EXCEPT !.parts = IF segment # <<>> THEN Append(@, segment) ELSE @,
                   !.current = <<>>]

\* The scanner step that splits at every comma outside quotes, nested or not.
SplitStep_FlatCommas(st, char) ==
    LET keep == [st EXCEPT !.current = Append(@, char)]
    IN  IF st.escaped
            THEN [keep EXCEPT !.escaped = FALSE]
        ELSE IF char = "\\" /\ (st.inSingle \/ st.inDouble)
            THEN [keep EXCEPT !.escaped = TRUE]
        ELSE IF char = "'" /\ ~st.inDouble
            THEN [keep EXCEPT !.inSingle = ~st.inSingle]
        ELSE IF char = "\"" /\ ~st.inSingle
            THEN [keep EXCEPT !.inDouble = ~st.inDouble]
        ELSE IF ~st.inSingle /\ ~st.inDouble /\ char = ","
            THEN FlushSegment(st)
        ELSE keep

SplitStep(st, char) ==
    LET keep == [st EXCEPT !.current = Append(@, char)]
    IN  IF st.escaped
            THEN [keep EXCEPT !.escaped = FALSE]
        ELSE IF char = "\\" /\ (st.inSingle \/ st.inDouble)
            THEN [keep EXCEPT !.escaped = TRUE]
        ELSE IF char = "'" /\ ~st.inDouble
            THEN [keep EXCEPT !.inSingle = ~st.inSingle]
        ELSE IF char = "\"" /\ ~st.inSingle
            THEN [keep EXCEPT !.inDouble = ~st.inDouble]
        ELSE IF ~st.inSingle /\ ~st.inDouble
            THEN IF char = "["
                    THEN [keep EXCEPT !.square = @ + 1]
                 ELSE IF char = "]" /\ st.square > 0
                    THEN [keep EXCEPT !.square = @ - 1]
                 ELSE IF char = "("
                    THEN [keep EXCEPT !.paren = @ + 1]
                 ELSE IF char = ")" /\ st.paren > 0
                    THEN [keep EXCEPT !.paren = @ - 1]
                 ELSE IF char = "," /\ st.square = 0 /\ st.paren = 0
                    THEN FlushSegment(st)
                 ELSE keep
        ELSE keep

RECURSIVE SplitScan(_, _, _)
SplitScan(raw, i, st) ==
    IF i > Len(raw) THEN st ELSE SplitScan(raw, i + 1, SplitStep(st, raw[i]))

split_reference_list(raw) == FlushSegment(SplitScan(raw, 1, SplitInit)).parts

(***************************************************************************)
(* _strip_clone_suffix: drop a trailing ` *suffix` clone marker.           *)
(***************************************************************************)
CloneSuffixOk(text, index) ==
    LET suffix == Strip(Drop(text, index))
    IN  /\ text[index] = "*"
        /\ index # 1
        /\ IsSpace(text[index - 1])
        /\ suffix # <<>>
        /\ \A j \in DOMAIN suffix :
              ~IsSpace(suffix[j]) /\ suffix[j] \notin {"/", ","}

RECURSIVE CloneScan(_, _, _, _)
CloneScan(text, index, square, paren) ==
    IF index < 1 THEN text
    ELSE LET char == text[index]
         IN  IF char = "]" THEN CloneScan(text, index - 1, square + 1, paren)
             ELSE IF char = "[" /\ square > 0
                THEN CloneScan(text, index - 1, square - 1, paren)
             ELSE IF char = ")" THEN CloneScan(text, index - 1, square, paren + 1)
             ELSE IF char = "(" /\ paren > 0
                THEN CloneScan(text, index - 1, square, paren - 1)
             ELSE IF square > 0 \/ paren > 0
                THEN CloneScan(text, index - 1, square, paren)
             ELSE IF CloneSuffixOk(text, index)
                THEN RStrip(SubSeq(text, 1, index - 2))
             ELSE CloneScan(text, index - 1, square, paren)

strip_clone_suffix(raw) ==
    LET text == RStrip(raw)
    IN  IF text = <<>> THEN text ELSE CloneScan(text, Len(text), 0, 0)

(***************************************************************************)
(* _split_path: split on / and // outside [] and ().                       *)
(***************************************************************************)
RECURSIVE PathScan(_, _, _, _, _, _)
PathScan(raw, i, parts, current, square, paren) ==
    IF i > Len(raw)
        THEN LET tail == Strip(current)
             IN  IF tail # <<>> THEN Append(parts, tail) ELSE parts
    ELSE LET char == raw[i]
             sq == IF char = "[" THEN square + 1
                   ELSE IF char = "]" /\ square > 0 THEN square - 1
                   ELSE square
             pa == IF char = "[" \/ (char = "]" /\ square > 0) THEN paren
                   ELSE IF char = "(" THEN paren + 1
                   ELSE IF char = ")" /\ paren > 0 THEN paren - 1
                   ELSE paren
         IN  IF char = "/" /\ sq = 0 /\ pa = 0
                THEN LET segment == Strip(current)
                         np == IF segment # <<>> THEN Append(parts, segment) ELSE parts
                         skip == IF i + 1 <= Len(raw) /\ raw[i + 1] = "/" THEN 2 ELSE 1
                     IN  PathScan(raw, i + skip, np, <<>>, sq, pa)
                ELSE PathScan(raw, i + 1, parts, Append(current, char), sq, pa)

split_path(raw) == PathScan(raw, 1, <<>>, <<>>, 0, 0)

(***************************************************************************)
(* _parse_part_components / parse_reference_components.                    *)
(***************************************************************************)
RECURSIVE StripRelative(_)
StripRelative(base) ==
    IF StartsWith(base, <<".", ".", "/">>)
        THEN LET r == StripRelative(LStrip(Drop(base, 3)))
             IN  [base |-> r.base, relative |-> TRUE]
    ELSE IF StartsWith(base, <<".", ".", ".", "/">>)
        THEN LET r == StripRelative(LStrip(Drop(base, 4)))
             IN  [base |-> r.base, relative |-> TRUE]
    ELSE [base |-> base, relative |-> FALSE]

Unwrap(token) ==
    IF Len(token) >= 2 /\ token[1] = "[" /\ token[Len(token)] = "]"
        THEN Strip(SubSeq(token, 2, Len(token) - 1))
        ELSE token

Component(rawComponent, relative) ==
    LET token == Unwrap(Strip(rawComponent))
        isSpecial == Lower(token) \in SPECIAL_REFERENCE_TOKENS
    IN  [token |-> token,
         raw |-> rawComponent,
         relative |-> relative,
         wildcard |-> ("*" \in Range(token)) /\ ~isSpecial,
         namespaced |-> Contains(token, <<":", ":">>),
         special |-> isSpecial]

parse_part_components(part) ==
    LET base0 == strip_clone_suffix(Strip(part))
        rel == StripRelative(base0)
        comps == IF base0 = <<>> \/ rel.base = <<>> THEN <<>> ELSE split_path(rel.base)
        all == [i \in DOMAIN comps |-> Component(comps[i], rel.relative)]
    IN  SelectSeq(all, LAMBDA c : c.token # <<>>)

RECURSIVE Flatten(_)
Flatten(ss) == IF ss = <<>> THEN <<>> ELSE Head(ss) \o Flatten(Tail(ss))

parse_reference_components(raw) ==
    LET parts == split_reference_list(raw)
    IN  Flatten([i \in DOMAIN parts |-> parse_part_components(parts[i])])

Tokens(raw) ==
    LET cs == parse_reference_components(raw)
    IN  [i \in DOMAIN cs |-> cs[i].token]

contains_identifier(raw, identifier) == identifier \in Range(Tokens(raw))

(***************************************************************************)
(* replace_reference_identifier: regex substitution                        *)
(*   (?<![B]) re.escape(old) (?![B])   with B the boundary class,          *)
(* leftmost, non-overlapping, lookarounds evaluated on the original text.  *)
(* `old` is never empty (normalize_required_str).                          *)
(***************************************************************************)
OccursAt(raw, old, i) ==
    /\ i + Len(old) - 1 <= Len(raw)
    /\ SubSeq(raw, i, i + Len(old) - 1) = old

PatternMatchesAt(raw, old, i) ==
    /\ OccursAt(raw, old, i)
    /\ (i = 1 \/ raw[i - 1] \notin IDENT_BOUNDARY_CHARS)
    /\ (i + Len(old) > Len(raw) \/ raw[i + Len(old)] \notin IDENT_BOUNDARY_CHARS)

RECURSIVE PatternSub(_, _, _, _)
PatternSub(raw, old, repl, i) ==
    IF i > Len(raw) THEN <<>>
    ELSE IF PatternMatchesAt(raw, old, i)
        THEN repl \o PatternSub(raw, old, repl, i + Len(old))
        ELSE <<raw[i]>> \o PatternSub(raw, old, repl, i + 1)

(***************************************************************************)
(* pattern.sub(new, raw) takes new as a replacement TEMPLATE: the regex    *)
(* engine processes its backslash escapes before any match is looked for.  *)
(* The pattern has no capturing group, so only group 0 can be referenced.  *)
(* ReError stands for the re.error the call raises.                        *)
(***************************************************************************)
ReError == <<"re.error">>

Backslash == "\\"

OctDigits == {"0","1","2","3","4","5","6","7"}

\* chr() of the escapes a template knows; characters TLA+ cannot write are named.
TemplateEscapes ==
    [c \in {"a", "b", "f", "n", "r", "t", "v", Backslash} |->
        CASE c = "a" -> "<BEL>"
          [] c = "b" -> "<BS>"
          [] c = "f" -> "\f"
          [] c = "n" -> "\n"
          [] c = "r" -> "\r"
          [] c = "t" -> "\t"
          [] c = "v" -> "<VT>"
          [] OTHER -> Backslash]

RECURSIVE OctalChar(_)
OctalChar(digits) ==
    IF digits = <<>> THEN ">" ELSE Head(digits) \o OctalChar(Tail(digits))

TemplateCat(head, rest) == IF rest = ReError THEN ReError ELSE head \o rest

RECURSIVE GroupNameEnd(_, _)
GroupNameEnd(template, j) ==
    IF j > Len(template) THEN 0
    ELSE IF template[j] = ">" THEN j
    ELSE GroupNameEnd(template, j + 1)

IsOct(template, j) == j <= Len(template) /\ template[j] \in OctDigits

RECURSIVE parse_template(_, _, _)
parse_template(template, matched, i) ==
    IF i > Len(template) THEN <<>>
    ELSE IF template[i] # Backslash
        THEN TemplateCat(<<template[i]>>, parse_template(template, matched, i + 1))
    ELSE IF i = Len(template) THEN ReError
    ELSE LET c == template[i + 1]
             e == GroupNameEnd(template, i + 3)
             n == IF IsOct(template, i + 2)
                    THEN IF IsOct(template, i + 3) THEN 2 ELSE 1
                    ELSE 0
         IN  CASE c = "g" ->
                    IF i + 2 > Len(template) \/ template[i + 2] # "<" THEN ReError
                    ELSE IF e = 0 \/ e = i + 3 THEN ReError
                    ELSE IF \A j \in (i + 3)..(e - 1) : template[j] = "0"
                        THEN TemplateCat(matched, parse_template(template, matched, e + 1))
                    ELSE ReError
               [] c = "0" ->
                    TemplateCat(<<"<0" \o OctalChar(SubSeq(template, i + 2, i + 1 + n))>>,
                                parse_template(template, matched, i + 2 + n))
               [] c \in Digits \ {"0"} ->
                    IF c \in {"1", "2", "3"} /\ n = 2
                        THEN TemplateCat(
                                <<"<" \o OctalChar(SubSeq(template, i + 1, i + 3))>>,
                                parse_template(template, matched, i + 4))
                        ELSE ReError
               [] c \in DOMAIN TemplateEscapes ->
                    TemplateCat(<<TemplateEscapes[c]>>,
                                parse_template(template, matched, i + 2))
               [] c \in Range(UpperLetters) \cup Range(LowerLetters) -> ReError
               [] OTHER ->
                    TemplateCat(<<Backslash, c>>,
                                parse_template(template, matched, i + 2))

replace_reference_identifier(raw, old, new) ==
    IF old = new THEN raw
    ELSE LET repl == IF Backslash \in Range(new)
                        THEN parse_template(new, old, 1)
                        ELSE new
         IN  IF repl = ReError THEN ReError ELSE PatternSub(raw, old, repl, 1)


(***************************************************************************)
(* YAML mappings as functions over the keys present.                       *)
(* Python's None is the one-element tuple <<"None">>, which no text equals *)
(* because every element of a text is a single character.                  *)
(***************************************************************************)
NoneStr == <<"None">>

Has(m, key) == key \in DOMAIN m

Get(m, key) == IF key \in DOMAIN m THEN m[key] ELSE NoneStr

SetKey(m, key, v) == [q \in DOMAIN m \cup {key} |-> IF q = key THEN v ELSE m[q]]

DelKey(m, key) == [q \in DOMAIN m \ {key} |-> m[q]]

RemoveIndex(list, i) == SubSeq(list, 1, i - 1) \o SubSeq(list, i + 1, Len(list))

SeqOf(m, key) == IF key \in DOMAIN m THEN m[key] ELSE <<>>

IsPrefix(p, q) == Len(p) <= Len(q) /\ SubSeq(q, 1, Len(p)) = p

(***************************************************************************)
(* core/index.py: identifiers, depth-first resource walk, id index.        *)
(* A location is the index path of a node: <<i>> is resources[i],          *)
(* <<i, j>> is resources[i].children[j], and so on; its container is the   *)
(* list addressed by the path without its last index.                      *)
(***************************************************************************)
resource_identifier(resource) ==
    IF Has(resource, "id") /\ Strip(resource["id"]) # <<>>
        THEN Strip(resource["id"])
    ELSE IF Has(resource, "name") /\ Strip(resource["name"]) # <<>>
        THEN Strip(resource["name"])
    ELSE NoneStr

perspective_identifier(perspective) == resource_identifier(perspective)

RECURSIVE iter_resources(_, _)
iter_resources(resources, prefix) ==
    Flatten([i \in DOMAIN resources |->
        LET raw == resources[i]
            path == Append(prefix, i)
        IN  IF resource_identifier(raw) = NoneStr THEN <<>>
            ELSE <<path>> \o
                 (IF Has(raw, "children")
                    THEN iter_resources(raw["children"], path)
                    ELSE <<>>)])

build_resource_locations(document) ==
    IF Has(document, "resources") THEN iter_resources(document["resources"], <<>>)
    ELSE <<>>

RECURSIVE NodeIn(_, _)
NodeIn(list, path) ==
    IF Len(path) = 1 THEN list[path[1]]
    ELSE NodeIn(list[path[1]]["children"], Tail(path))

NodeAt(document, path) == NodeIn(document["resources"], path)

RECURSIVE ReplaceIn(_, _, _)
ReplaceIn(list, path, node) ==
    IF Len(path) = 1 THEN [list EXCEPT ![path[1]] = node]
    ELSE [list EXCEPT ![path[1]] =
            SetKey(list[path[1]], "children",
                   ReplaceIn(list[path[1]]["children"], Tail(path), node))]

ReplaceAt(document, path, node) ==
    SetKey(document, "resources", ReplaceIn(document["resources"], path, node))

RECURSIVE RemoveIn(_, _)
RemoveIn(list, path) ==
    IF Len(path) = 1 THEN RemoveIndex(list, path[1])
    ELSE [list EXCEPT ![path[1]] =
            SetKey(list[path[1]], "children",
                   RemoveIn(list[path[1]]["children"], Tail(path)))]

\* container.pop(index) on the list holding the node at `path`.
PopAt(document, path) ==
    SetKey(document, "resources", RemoveIn(document["resources"], path))

\* Where the node at `path` is found after the node at `removed` was popped.
PathAfterPop(path, removed) ==
    LET n == Len(removed)
    IN  IF /\ Len(path) >= n
           /\ SubSeq(path, 1, n - 1) = SubSeq(removed, 1, n - 1)
           /\ path[n] > removed[n]
            THEN [path EXCEPT ![n] = @ - 1]
            ELSE path

HasExplicitId(node) == Has(node, "id") /\ Strip(node["id"]) # <<>>

\* build_resource_id_index(document).get(resource_id, [])
build_resource_id_index(document, resource_id) ==
    SelectSeq(build_resource_locations(document),
              LAMBDA path :
                  LET node == NodeAt(document, path)
                  IN  HasExplicitId(node) /\ Strip(node["id"]) = resource_id)

ExplicitIds(document) ==
    { Strip(NodeAt(document, path)["id"]) :
        path \in { q \in Range(build_resource_locations(document)) :
                     HasExplicitId(NodeAt(document, q)) } }

\* get_single_resource_by_id raises unless exactly one node carries the id.
FoundById(document, resource_id) ==
    Len(build_resource_id_index(document, resource_id)) = 1

get_single_resource_by_id(document, resource_id) ==
    build_resource_id_index(document, resource_id)[1]

ensure_children(resource) ==
    IF Has(resource, "children") THEN resource ELSE SetKey(resource, "children", <<>>)

ensure_root_resources(document) ==
    IF Has(document, "resources") THEN document ELSE SetKey(document, "resources", <<>>)

AppendChild(document, parentPath, node) ==
    LET parent == ensure_children(NodeAt(document, parentPath))
    IN  ReplaceAt(document, parentPath,
                  SetKey(parent, "children", Append(parent["children"], node)))

AppendRoot(document, node) ==
    LET d == ensure_root_resources(document)
    IN  SetKey(d, "resources", Append(d["resources"], node))

build_perspective_locations(document) ==
    LET ps == SeqOf(document, "perspectives")
    IN  SelectSeq([i \in DOMAIN ps |-> i],
                  LAMBDA i : perspective_identifier(ps[i]) # NoneStr)

PerspectiveMatches(document, identifier) ==
    SelectSeq(build_perspective_locations(document),
              LAMBDA i : perspective_identifier(document["perspectives"][i]) = identifier)

FoundPerspective(document, identifier) ==
    Len(PerspectiveMatches(document, identifier)) = 1

get_single_perspective(document, identifier) ==
    PerspectiveMatches(document, identifier)[1]

SetPerspective(document, index, perspective) ==
    SetKey(document, "perspectives",
           [document["perspectives"] EXCEPT ![index] = perspective])

(***************************************************************************)
(* Results of a mutation-engine call: the document as the call left it,    *)
(* whether it raised ValidationError, and the returned changed flag.       *)
(***************************************************************************)
Ok(document, changed) == [doc |-> document, raised |-> FALSE, changed |-> changed]

Raise(document) == [doc |-> document, raised |-> TRUE, changed |-> FALSE]

(***************************************************************************)
(* core/reference_fields.py: the reference-bearing fields of a document.   *)
(* A field is [container, key, value, perspective, section], where         *)
(* container addresses the mapping holding the key: the index of its       *)
(* perspective (0 for the resource forest) and the index path inside the   *)
(* section.                                                                *)
(***************************************************************************)
WALKTHROUGH_REFERENCE_KEYS ==
    {"select", "expand", "hide", "focus", "highlight", "include", "exclude",
     "root", "center", "zoomTo"}

RELATION_REFERENCE_KEYS == <<"from", "to", "via">>
OVERRIDE_REFERENCE_KEYS == <<"resourceId", "parentId">>
STEP_REFERENCE_KEYS == <<"to", "toAndBack", "toAsync", "restartAt">>

At(pindex, path) == [persp |-> pindex, at |-> path]

Field(container, key, value, perspective, section) ==
    [container |-> container, key |-> key, value |-> value,
     perspective |-> perspective, section |-> section]

\* The fields of one mapping for the keys listed, in the order listed.
KeyFields(mapping, keys, container, perspective, section) ==
    LET present == SelectSeq(keys, LAMBDA key : Has(mapping, key))
    IN  [i \in DOMAIN present |->
            Field(container, present[i], mapping[present[i]], perspective, section)]

RECURSIVE iter_resource_reference_fields(_, _, _)
iter_resource_reference_fields(resources, base, include_instance_of) ==
    Flatten([i \in DOMAIN resources |->
        LET raw == resources[i]
            path == Append(base, i)
        IN  (IF include_instance_of
                THEN KeyFields(raw, <<"instanceOf">>, At(0, path),
                               NoneStr, "resource.instanceOf")
                ELSE <<>>)
            \o (IF Has(raw, "children")
                    THEN iter_resource_reference_fields(
                            raw["children"], path, include_instance_of)
                    ELSE <<>>)])

RECURSIVE iter_steps_reference_fields(_, _, _, _)
iter_steps_reference_fields(steps, perspective, pindex, base) ==
    Flatten([i \in DOMAIN steps |->
        LET step == steps[i]
            here == Append(base, i)
        IN  KeyFields(step, STEP_REFERENCE_KEYS, At(pindex, here), perspective,
                      "sequence")
            \o (IF Has(step, "subSequence") /\ Has(step["subSequence"], "steps")
                    THEN iter_steps_reference_fields(
                            step["subSequence"]["steps"], perspective, pindex, here)
                    ELSE <<>>)])

WalkthroughKeys(slide) ==
    SelectSeq(<<"select", "expand", "hide", "focus", "highlight", "include",
                "exclude", "root", "center", "zoomTo">>,
              LAMBDA key : key \in WALKTHROUGH_REFERENCE_KEYS /\ Has(slide, key))

iter_perspective_reference_fields(node, perspective, base) ==
    LET relations == SeqOf(node, "relations")
        overrides == SeqOf(node, "overrides")
        aliases == SeqOf(node, "aliases")
        walkthrough == SeqOf(node, "walkthrough")
    IN  Flatten([i \in DOMAIN relations |->
            KeyFields(relations[i], RELATION_REFERENCE_KEYS,
                      At(base, <<i>>), perspective, "relations")])
        \o Flatten([i \in DOMAIN overrides |->
            KeyFields(overrides[i], OVERRIDE_REFERENCE_KEYS,
                      At(base, <<i>>), perspective, "overrides")])
        \o Flatten([i \in DOMAIN aliases |->
            KeyFields(aliases[i], <<"for">>,
                      At(base, <<i>>), perspective, "aliases")])
        \o Flatten([i \in DOMAIN walkthrough |->
            KeyFields(walkthrough[i], WalkthroughKeys(walkthrough[i]),
                      At(base, <<i>>), perspective, "walkthrough")])
        \o (IF Has(node, "sequence")
                THEN KeyFields(node["sequence"], <<"start">>,
                               At(base, <<>>), perspective, "sequence")
                     \o (IF Has(node["sequence"], "steps")
                            THEN iter_steps_reference_fields(
                                    node["sequence"]["steps"], perspective,
                                    base, <<>>)
                            ELSE <<>>)
                ELSE <<>>)

iter_reference_fields(document, include_instance_of) ==
    LET perspectives == SeqOf(document, "perspectives")
    IN  iter_resource_reference_fields(
            SeqOf(document, "resources"), <<>>, include_instance_of)
        \o Flatten([i \in DOMAIN perspectives |->
            iter_perspective_reference_fields(
                perspectives[i], perspective_identifier(perspectives[i]), i)])

(***************************************************************************)
(* ops/resource_ops.py: _rewrite_reference_strings writes                  *)
(* replace_reference_identifier(value, old, new) back into every field     *)
(* that iter_reference_fields yields with its default arguments, then      *)
(* _rewrite_context_strings does the same for every string value of every  *)
(* context.  The traversal below visits the same mappings and keys.        *)
(***************************************************************************)
RewriteKeys(mapping, keys, old, new) ==
    [key \in DOMAIN mapping |->
        IF key \in keys
            THEN replace_reference_identifier(mapping[key], old, new)
            ELSE mapping[key]]

RewriteEach(list, keys, old, new) ==
    [i \in DOMAIN list |-> RewriteKeys(list[i], keys, old, new)]

RECURSIVE RewriteResources(_, _, _, _)
RewriteResources(resources, keys, old, new) ==
    [i \in DOMAIN resources |->
        LET r == RewriteKeys(resources[i], keys, old, new)
        IN  IF Has(r, "children")
                THEN SetKey(r, "children",
                            RewriteResources(r["children"], keys, old, new))
                ELSE r]

RECURSIVE RewriteSteps(_, _, _)
RewriteSteps(steps, old, new) ==
    [i \in DOMAIN steps |->
        LET st == RewriteKeys(steps[i], Range(STEP_REFERENCE_KEYS), old, new)
        IN  IF Has(st, "subSequence") /\ Has(st["subSequence"], "steps")
                THEN SetKey(st, "subSequence",
                        SetKey(st["subSequence"], "steps",
                               RewriteSteps(st["subSequence"]["steps"], old, new)))
                ELSE st]

RewriteSequence(sequence, old, new) ==
    LET sq == RewriteKeys(sequence, {"start"}, old, new)
    IN  IF Has(sq, "steps")
            THEN SetKey(sq, "steps", RewriteSteps(sq["steps"], old, new))
            ELSE sq

RewritePerspective(node, old, new) ==
    [key \in DOMAIN node |->
        CASE key = "relations" ->
                RewriteEach(node[key], Range(RELATION_REFERENCE_KEYS), old, new)
          [] key = "overrides" ->
                RewriteEach(node[key], Range(OVERRIDE_REFERENCE_KEYS), old, new)
          [] key = "aliases" -> RewriteEach(node[key], {"for"}, old, new)
          [] key = "walkthrough" ->
                RewriteEach(node[key], WALKTHROUGH_REFERENCE_KEYS, old, new)
          [] key = "sequence" -> RewriteSequence(node[key], old, new)
          [] OTHER -> node[key]]

\* The string-valued keys of a context mapping (hidden and roots are not strings).
ContextStringKeys == {"name", "extends"}

\* The keys of resource mappings that _rewrite_reference_strings rewrites:
\* iter_reference_fields is called with include_instance_of left at True.
RewrittenResourceKeys == {"instanceOf"}

rewrite_context_strings(contexts, old, new) ==
    [i \in DOMAIN contexts |->
        [key \in DOMAIN contexts[i] |->
            IF key \in ContextStringKeys
                THEN replace_reference_identifier(contexts[i][key], old, new)
                ELSE contexts[i][key]]]

rewrite_reference_strings(document, old, new) ==
    [key \in DOMAIN document |->
        CASE key = "resources" ->
                RewriteResources(document[key], RewrittenResourceKeys, old, new)
          [] key = "perspectives" ->
                [i \in DOMAIN document[key] |->
                    RewritePerspective(document[key][i], old, new)]
          [] key = "contexts" -> rewrite_context_strings(document[key], old, new)
          [] OTHER -> document[key]]

(***************************************************************************)
(* ops/resource_ops.py                                                     *)
(***************************************************************************)
create_resource(document, resource_id, name, parent_id) ==
    LET resource == [id |-> resource_id, name |-> name]
    IN  IF build_resource_id_index(document, resource_id) # <<>>
            THEN Raise(document)
        ELSE IF is_none_token(parent_id)
            THEN Ok(AppendRoot(document, resource), TRUE)
        ELSE IF ~FoundById(document, parent_id)
            THEN Raise(document)
        ELSE Ok(AppendChild(document,
                            get_single_resource_by_id(document, parent_id),
                            resource), TRUE)

rename_resource(document, resource_id, new_name) ==
    IF ~FoundById(document, resource_id) THEN Raise(document)
    ELSE LET location == get_single_resource_by_id(document, resource_id)
             node == NodeAt(document, location)
         IN  IF Has(node, "name") /\ node["name"] = new_name
                THEN Ok(document, FALSE)
                ELSE Ok(ReplaceAt(document, location, SetKey(node, "name", new_name)),
                        TRUE)

\* The first replace_reference_identifier call of _rewrite_reference_strings
\* raises when the template is malformed; nothing has been rewritten by then.
RewriteRaises(document, old, new) ==
    /\ replace_reference_identifier(<<>>, old, new) = ReError
    /\ \/ iter_reference_fields(document, TRUE) # <<>>
       \/ \E i \in DOMAIN SeqOf(document, "contexts") :
             DOMAIN document["contexts"][i] \cap ContextStringKeys # {}

\* rename_resource_id without the test for an existing target id.
rename_resource_id_NoTargetCheck(document, old_id, new_id) ==
    IF old_id = new_id THEN Raise(document)
    ELSE IF ~FoundById(document, old_id) THEN Raise(document)
    ELSE LET location == get_single_resource_by_id(document, old_id)
             node == NodeAt(document, location)
             renamed == ReplaceAt(document, location, SetKey(node, "id", new_id))
         IN  IF RewriteRaises(renamed, resource_identifier(node), new_id)
                THEN Raise(renamed)
             ELSE Ok(rewrite_reference_strings(renamed, resource_identifier(node), new_id),
                     TRUE)

rename_resource_id(document, old_id, new_id) ==
    IF old_id = new_id THEN Raise(document)
    ELSE IF build_resource_id_index(document, new_id) # <<>> THEN Raise(document)
    ELSE IF ~FoundById(document, old_id) THEN Raise(document)
    ELSE LET location == get_single_resource_by_id(document, old_id)
             node == NodeAt(document, location)
             old_identifier == resource_identifier(node)
             renamed == ReplaceAt(document, location, SetKey(node, "id", new_id))
         IN  IF old_identifier = NoneStr THEN Raise(document)
             ELSE IF RewriteRaises(renamed, old_identifier, new_id)
                THEN Raise(renamed)
             ELSE Ok(rewrite_reference_strings(renamed, old_identifier, new_id), TRUE)

\* _is_descendant that looks at the children only and does not recurse.
is_descendant_ChildrenOnly(ancestor, node) ==
    IsPrefix(ancestor, node) /\ Len(node) = Len(ancestor) + 1

\* _is_descendant(ancestor, node): node lies strictly below ancestor.
is_descendant(ancestor, node) == IsPrefix(ancestor, node) /\ Len(node) > Len(ancestor)

ParentPath(path) == SubSeq(path, 1, Len(path) - 1)

clear_resource_style_for_inheritance(resource) == DelKey(resource, "style")

\* move_resource without the test for a node that is already the last child.
move_resource_NoLastChildTest(document, resource_id, new_parent_id, inherit_style_from_parent) ==
    IF ~FoundById(document, resource_id) THEN Raise(document)
    ELSE IF ~FoundById(document, new_parent_id) THEN Raise(document)
    ELSE LET location == get_single_resource_by_id(document, resource_id)
             target == get_single_resource_by_id(document, new_parent_id)
             node == NodeAt(document, location)
             d1 == ReplaceAt(document, target, ensure_children(NodeAt(document, target)))
             moved == IF inherit_style_from_parent
                        THEN clear_resource_style_for_inheritance(node)
                        ELSE node
         IN  IF location = target \/ is_descendant(location, target) THEN Raise(document)
             ELSE Ok(AppendChild(PopAt(d1, location),
                                 PathAfterPop(target, location), moved),
                     TRUE)

move_resource(document, resource_id, new_parent_id, inherit_style_from_parent) ==
    IF ~FoundById(document, resource_id) THEN Raise(document)
    ELSE IF ~FoundById(document, new_parent_id) THEN Raise(document)
    ELSE LET location == get_single_resource_by_id(document, resource_id)
             target == get_single_resource_by_id(document, new_parent_id)
             node == NodeAt(document, location)
             d1 == ReplaceAt(document, target, ensure_children(NodeAt(document, target)))
             alreadyLast ==
                 /\ ParentPath(location) = target
                 /\ location[Len(location)] = Len(NodeAt(d1, target)["children"])
             moved == IF inherit_style_from_parent
                        THEN clear_resource_style_for_inheritance(node)
                        ELSE node
         IN  IF location = target THEN Raise(document)
             ELSE IF is_descendant(location, target) THEN Raise(document)
             ELSE IF alreadyLast
                THEN IF ~inherit_style_from_parent THEN Ok(d1, FALSE)
                     ELSE Ok(ReplaceAt(d1, location, moved), Has(node, "style"))
             ELSE IF IsPrefix(location, target)
                \* the node is appended to a list inside itself, after it was
                \* popped from the forest: the subtree is no longer in the document
                THEN Ok(PopAt(d1, location), TRUE)
             ELSE Ok(AppendChild(PopAt(d1, location),
                                 PathAfterPop(target, location), moved),
                     TRUE)

\* _first_explicit_descendant_id that looks at the children only.
first_explicit_descendant_id_ChildrenOnly(node, existing_ids) ==
    LET children == SeqOf(node, "children")
        hits == SelectSeq(children,
                          LAMBDA child : /\ HasExplicitId(child)
                                         /\ Strip(child["id"]) \in existing_ids)
    IN  IF hits = <<>> THEN NoneStr ELSE Strip(hits[1]["id"])

\* _first_explicit_descendant_id: the first explicit id below node, in
\* depth-first order, that is one of existing_ids; None when there is none.
RECURSIVE FirstExplicitFrom(_, _, _)
RECURSIVE first_explicit_descendant_id(_, _)
FirstExplicitFrom(children, i, existing_ids) ==
    IF i > Len(children) THEN NoneStr
    ELSE LET child == children[i]
         IN  IF HasExplicitId(child) /\ Strip(child["id"]) \in existing_ids
                THEN Strip(child["id"])
             ELSE LET nested == first_explicit_descendant_id(child, existing_ids)
                  IN  IF nested # NoneStr THEN nested
                      ELSE FirstExplicitFrom(children, i + 1, existing_ids)

first_explicit_descendant_id(node, existing_ids) ==
    FirstExplicitFrom(SeqOf(node, "children"), 1, existing_ids)

\* clone_resource; new_parent_id and new_name are NoneStr when not given.
clone_resource(document, resource_id, new_id, new_parent_id, new_name, with_children) ==
    LET existing == ExplicitIds(document)
    IN  IF new_id \in existing THEN Raise(document)
        ELSE IF ~FoundById(document, resource_id) THEN Raise(document)
        ELSE LET source == get_single_resource_by_id(document, resource_id)
                 copy == SetKey(NodeAt(document, source), "id", new_id)
                 named == IF new_name # NoneStr THEN SetKey(copy, "name", new_name)
                          ELSE copy
                 clone == IF ~with_children THEN DelKey(named, "children") ELSE named
             IN  IF with_children
                    /\ first_explicit_descendant_id(clone, existing) # NoneStr
                    THEN Raise(document)
                 ELSE IF new_parent_id = NoneStr
                    THEN IF Len(source) = 1
                            THEN Ok(AppendRoot(document, clone), TRUE)
                            ELSE Ok(AppendChild(document, ParentPath(source), clone), TRUE)
                 ELSE IF is_none_token(new_parent_id)
                    THEN Ok(AppendRoot(document, clone), TRUE)
                 ELSE IF ~FoundById(document, new_parent_id) THEN Raise(document)
                 ELSE Ok(AppendChild(document,
                                     get_single_resource_by_id(document, new_parent_id),
                                     clone), TRUE)

move_resource_to_root(document, resource_id) ==
    IF ~FoundById(document, resource_id) THEN Raise(document)
    ELSE LET location == get_single_resource_by_id(document, resource_id)
         IN  IF Len(location) = 1 THEN Ok(document, FALSE)
             ELSE Ok(AppendRoot(PopAt(document, location), NodeAt(document, location)),
                     TRUE)

\* delete_resource without the guard on children.
delete_resource_IgnoresChildren(document, resource_id, delete_subtree) ==
    IF ~FoundById(document, resource_id) THEN Raise(document)
    ELSE Ok(PopAt(document, get_single_resource_by_id(document, resource_id)), TRUE)

delete_resource(document, resource_id, delete_subtree) ==
    IF ~FoundById(document, resource_id) THEN Raise(document)
    ELSE LET location == get_single_resource_by_id(document, resource_id)
             has_children == SeqOf(NodeAt(document, location), "children") # <<>>
         IN  IF has_children /\ ~delete_subtree THEN Raise(document)
             ELSE Ok(PopAt(document, location), TRUE)

(***************************************************************************)
(* ops/group_ops.py: move_many moves the ids one after the other on the    *)
(* same document; a failing id raises out of the loop.                     *)
(***************************************************************************)
HasDuplicates(ids) == \E i, j \in DOMAIN ids : i < j /\ ids[i] = ids[j]

MoveOne(document, resource_id, new_parent_id) ==
    IF is_none_token(new_parent_id)
        THEN move_resource_to_root(document, resource_id)
        ELSE move_resource(document, resource_id, new_parent_id, FALSE)

RECURSIVE MoveManyLoop(_, _, _, _)
MoveManyLoop(document, ids, new_parent_id, changed) ==
    IF ids = <<>> THEN Ok(document, changed)
    ELSE LET r == MoveOne(document, Head(ids), new_parent_id)
         IN  IF r.raised THEN r
             ELSE MoveManyLoop(r.doc, Tail(ids), new_parent_id, r.changed \/ changed)

move_many(document, ids, new_parent_id) ==
    IF HasDuplicates(ids) THEN Raise(document)
    ELSE MoveManyLoop(document, ids, new_parent_id, FALSE)

(***************************************************************************)
(* ops/relation_ops.py (index-addressed operations)                        *)
(***************************************************************************)
\* payload: the mapping of the keyword arguments that are not None.
add_relation(document, perspective_id, payload) ==
    IF ~Has(payload, "from") /\ ~Has(payload, "to") THEN Raise(document)
    ELSE IF ~FoundPerspective(document, perspective_id) THEN Raise(document)
    ELSE LET index == get_single_perspective(document, perspective_id)
             node == document["perspectives"][index]
         IN  Ok(SetPerspective(document, index,
                    SetKey(node, "relations",
                           Append(SeqOf(node, "relations"), payload))),
                TRUE)

remove_relation(document, perspective_id, index_1_based) ==
    IF ~FoundPerspective(document, perspective_id) THEN Raise(document)
    ELSE LET index == get_single_perspective(document, perspective_id)
             node == document["perspectives"][index]
         IN  IF ~Has(node, "relations") THEN Raise(document)
             ELSE IF index_1_based < 1 \/ index_1_based > Len(node["relations"])
                THEN Raise(document)
             ELSE Ok(SetPerspective(document, index,
                        SetKey(node, "relations",
                               RemoveIndex(node["relations"], index_1_based))),
                     TRUE)

\* _apply_edit for from/to/via/label/description, then the three plain sets.
ApplyEdits(relation, set_values, clear) ==
    [key \in (DOMAIN relation \ clear)
             \cup { q \in DOMAIN set_values : q \notin clear } |->
        IF key \in DOMAIN set_values /\ key \notin clear
            THEN set_values[key]
            ELSE relation[key]]

validate_relation_integrity(relation) == Has(relation, "from") \/ Has(relation, "to")

\* set_values: the value arguments that are not None; clear: the clear_* flags set
\* (a subset of from, to, via, label, description).
edit_relation(document, perspective_id, index_1_based, set_values, clear) ==
    IF ~FoundPerspective(document, perspective_id) THEN Raise(document)
    ELSE LET index == get_single_perspective(document, perspective_id)
             node == document["perspectives"][index]
         IN  IF ~Has(node, "relations") THEN Raise(document)
             ELSE IF index_1_based < 1 \/ index_1_based > Len(node["relations"])
                THEN Raise(document)
             ELSE LET relation == node["relations"][index_1_based]
                      edited == ApplyEdits(relation, set_values, clear)
                      after == SetPerspective(document, index,
                                  SetKey(node, "relations",
                                         [node["relations"] EXCEPT
                                            ![index_1_based] = edited]))
                  IN  IF ~validate_relation_integrity(edited) THEN Raise(after)
                      ELSE Ok(after, edited # relation)

(***************************************************************************)
(* ops/alias_ops.py and ops/override_ops.py                                *)
(***************************************************************************)
InsertAt(list, index_1_based, item) ==
    SubSeq(list, 1, index_1_based - 1) \o <<item>>
        \o SubSeq(list, index_1_based, Len(list))

\* _find_alias_index / _find_override_index: first entry whose key has the value.
FindIndex(list, key, value) ==
    IF \E i \in DOMAIN list : Has(list[i], key) /\ list[i][key] = value
        THEN CHOOSE i \in DOMAIN list :
                /\ Has(list[i], key) /\ list[i][key] = value
                /\ \A j \in 1..(i - 1) : ~(Has(list[j], key) /\ list[j][key] = value)
        ELSE 0

\* _ensure_aliases / _ensure_overrides: the container is created when absent.
EnsureList(perspective, key) ==
    IF Has(perspective, key) THEN perspective ELSE SetKey(perspective, key, <<>>)

\* index_1_based = 0 stands for None (append).
InsertPayload(document, index, node, key, payload, index_1_based) ==
    LET ensured == SetPerspective(document, index, node)
        list == node[key]
    IN  IF index_1_based = 0
            THEN Ok(SetPerspective(document, index,
                        SetKey(node, key, Append(list, payload))), TRUE)
        ELSE IF index_1_based < 1 THEN Raise(ensured)
        ELSE IF index_1_based > Len(list) + 1 THEN Raise(ensured)
        ELSE Ok(SetPerspective(document, index,
                    SetKey(node, key, InsertAt(list, index_1_based, payload))), TRUE)

add_alias(document, perspective, alias, alias_for, index_1_based) ==
    IF ~FoundPerspective(document, perspective) THEN Raise(document)
    ELSE LET index == get_single_perspective(document, perspective)
             node == EnsureList(document["perspectives"][index], "aliases")
         IN  IF FindIndex(node["aliases"], "alias", alias) # 0
                THEN Raise(SetPerspective(document, index, node))
                ELSE InsertPayload(document, index, node, "aliases",
                                   [alias |-> alias, for |-> alias_for],
                                   index_1_based)

\* parent_id = NoneStr and scale = NoneStr stand for None.
OverridePayload(resource_id, parent_id, scale) ==
    [key \in {"resourceId"}
            \cup (IF parent_id = NoneStr THEN {} ELSE {"parentId"})
            \cup (IF scale = NoneStr THEN {} ELSE {"scale"}) |->
        CASE key = "resourceId" -> resource_id
          [] key = "parentId" -> parent_id
          [] OTHER -> scale]

add_override(document, perspective, resource_id, parent_id, scale, index_1_based) ==
    IF parent_id = NoneStr /\ scale = NoneStr THEN Raise(document)
    ELSE IF ~FoundPerspective(document, perspective) THEN Raise(document)
    ELSE LET index == get_single_perspective(document, perspective)
             node == EnsureList(document["perspectives"][index], "overrides")
         IN  IF FindIndex(node["overrides"], "resourceId", resource_id) # 0
                THEN Raise(SetPerspective(document, index, node))
                ELSE InsertPayload(document, index, node, "overrides",
                                   OverridePayload(resource_id, parent_id, scale),
                                   index_1_based)

\* One of the two optional fields of edit_override: cleared, set, or left alone.
EditOptional(target, key, value, clear) ==
    IF clear THEN DelKey(target, key)
    ELSE IF value # NoneStr /\ Get(target, key) # value THEN SetKey(target, key, value)
    ELSE target

edit_override(document, perspective, resource_id, new_resource_id, parent_id, scale, clear_parent_id, clear_scale) ==
    IF /\ new_resource_id = NoneStr /\ parent_id = NoneStr /\ scale = NoneStr
       /\ ~clear_parent_id /\ ~clear_scale
        THEN Raise(document)
    ELSE IF ~FoundPerspective(document, perspective) THEN Raise(document)
    ELSE LET index == get_single_perspective(document, perspective)
             node == document["perspectives"][index]
             overrides == SeqOf(node, "overrides")
             target_index == FindIndex(overrides, "resourceId", resource_id)
             target == overrides[target_index]
             renames == new_resource_id # NoneStr /\ new_resource_id # resource_id
             existing_index == FindIndex(overrides, "resourceId", new_resource_id)
             t1 == IF renames THEN SetKey(target, "resourceId", new_resource_id)
                              ELSE target
             t2 == EditOptional(t1, "parentId", parent_id, clear_parent_id)
             t3 == EditOptional(t2, "scale", scale, clear_scale)
             after == SetPerspective(document, index,
                         SetKey(node, "overrides",
                                [overrides EXCEPT ![target_index] = t3]))
         IN  IF ~Has(node, "overrides") THEN Raise(document)
             ELSE IF target_index = 0 THEN Raise(document)
             ELSE IF renames /\ existing_index # 0 /\ existing_index # target_index
                THEN Raise(document)
             ELSE IF ~Has(t3, "parentId") /\ ~Has(t3, "scale") THEN Raise(after)
             ELSE Ok(after, t3 # target)

(***************************************************************************)
(* ops/relation_ops.py: the bulk operations.  A target is [all, ids]: the  *)
(* string "*" (all |-> TRUE) or a list of perspective identifiers; contexts*)
(* is NoneStr when target.contexts is not set.  A result carries the       *)
(* returned count beside the document.                                     *)
(***************************************************************************)
CONTEXT_TOKEN == <<"{", "c", "o", "n", "t", "e", "x", "t", "}">>

Counted(document, raised, count) ==
    [doc |-> document, raised |-> raised, changed |-> count > 0, count |-> count]

\* value.replace(token, with): leftmost occurrences, not overlapping.
RECURSIVE StrReplace(_, _, _)
StrReplace(value, token, with) ==
    IF value = <<>> THEN <<>>
    ELSE IF StartsWith(value, token)
        THEN with \o StrReplace(Drop(value, Len(token)), token, with)
    ELSE <<Head(value)>> \o StrReplace(Tail(value), token, with)

\* A string value of the template (booleans are left as they are).
IsTemplateString(payload, key) == key # "secondary"

\* _render_template raises when a value holds the token and no context is set.
RenderRaises(payload, context) ==
    /\ context = NoneStr
    /\ \E key \in DOMAIN payload :
          IsTemplateString(payload, key) /\ Contains(payload[key], CONTEXT_TOKEN)

render_template(payload, context) ==
    [key \in DOMAIN payload |->
        IF IsTemplateString(payload, key) /\ Contains(payload[key], CONTEXT_TOKEN)
            THEN StrReplace(payload[key], CONTEXT_TOKEN, context)
            ELSE payload[key]]

\* _expand_payload_templates: one payload per context, the first of each
\* distinct rendering kept.
expand_payload_templates(template, contexts) ==
    IF contexts = NoneStr THEN <<render_template(template, NoneStr)>>
    ELSE LET rendered == [i \in DOMAIN contexts |-> render_template(template, contexts[i])]
             kept == SelectSeq([i \in DOMAIN rendered |-> i],
                               LAMBDA i : \A j \in 1..(i - 1) : rendered[j] # rendered[i])
         IN  [i \in DOMAIN kept |-> rendered[kept[i]]]

AvailablePerspectives(document) ==
    LET locations == build_perspective_locations(document)
    IN  [i \in DOMAIN locations |->
            perspective_identifier(document["perspectives"][locations[i]])]

ResolvePerspectivesRaises(document, target) ==
    \/ AvailablePerspectives(document) = <<>>
    \/ /\ ~target.all
       /\ \/ HasDuplicates(target.ids)
          \/ \E i \in DOMAIN target.ids : ~FoundPerspective(document, target.ids[i])

resolve_perspectives(document, target) ==
    IF target.all THEN AvailablePerspectives(document) ELSE target.ids

available_context_names(document) ==
    { c["name"] : c \in { d \in Range(SeqOf(document, "contexts")) : Has(d, "name") } }

ResolveContextsRaises(document, contexts) ==
    /\ contexts # NoneStr
    /\ \E i \in DOMAIN contexts : contexts[i] \notin available_context_names(document)

\* The arguments are rejected before any relation is touched.
TargetsRaise(document, target, contexts, template) ==
    \/ ResolvePerspectivesRaises(document, target)
    \/ ResolveContextsRaises(document, contexts)
    \/ RenderRaises(template, contexts)

\* The loops of add_relation_many, flattened: pair n is payload
\* ((n - 1) % |payloads|) + 1 of perspective ((n - 1) \div |payloads|) + 1.
RECURSIVE AddManyLoop(_, _, _, _)
AddManyLoop(document, perspective_ids, payloads, n) ==
    IF n = 0 THEN Counted(document, FALSE, 0)
    ELSE LET before_ == AddManyLoop(document, perspective_ids, payloads, n - 1)
             p == ((n - 1) \div Len(payloads)) + 1
             q == ((n - 1) % Len(payloads)) + 1
         IN  IF before_.raised THEN before_
             ELSE LET r == add_relation(before_.doc, perspective_ids[p], payloads[q])
                  IN  Counted(r.doc, r.raised,
                              IF r.raised THEN before_.count ELSE before_.count + 1)

add_relation_many(document, target, contexts, template) ==
    IF TargetsRaise(document, target, contexts, template) THEN Counted(document, TRUE, 0)
    ELSE LET ids == resolve_perspectives(document, target)
             payloads == expand_payload_templates(template, contexts)
         IN  AddManyLoop(document, ids, payloads, Len(ids) * Len(payloads))

\* _relation_matches that compares the `from` key only.
relation_matches_FromOnly(relation, expected) ==
    Has(expected, "from") => (Has(relation, "from") /\ relation["from"] = expected["from"])

\* _relation_matches: every key of expected has the same value in relation;
\* a missing `secondary` counts as False.
relation_matches(relation, expected) ==
    \A key \in DOMAIN expected :
        IF key = "secondary"
            THEN expected[key] = (IF Has(relation, key) THEN relation[key] ELSE FALSE)
            ELSE Has(relation, key) /\ relation[key] = expected[key]

\* The loop of remove_relations_match_many over the first n perspectives.
RECURSIVE RemoveMatchLoop(_, _, _, _)
RemoveMatchLoop(document, perspective_ids, payloads, n) ==
    IF n = 0 THEN Counted(document, FALSE, 0)
    ELSE LET before_ == RemoveMatchLoop(document, perspective_ids, payloads, n - 1)
             d == before_.doc
         IN  IF before_.raised THEN before_
             ELSE IF ~FoundPerspective(d, perspective_ids[n])
                THEN Counted(d, TRUE, before_.count)
             ELSE LET index == get_single_perspective(d, perspective_ids[n])
                      node == d["perspectives"][index]
                      relations == SeqOf(node, "relations")
                      keep == SelectSeq(relations,
                                LAMBDA relation :
                                    ~\E j \in DOMAIN payloads :
                                        relation_matches(relation, payloads[j]))
                  IN  IF ~Has(node, "relations") THEN before_
                      ELSE Counted(SetPerspective(d, index, SetKey(node, "relations", keep)),
                                   FALSE,
                                   before_.count + Len(relations) - Len(keep))

remove_relations_match_many(document, target, contexts, match_template, require_match) ==
    IF TargetsRaise(document, target, contexts, match_template)
        THEN Counted(document, TRUE, 0)
    ELSE LET ids == resolve_perspectives(document, target)
             payloads == expand_payload_templates(match_template, contexts)
             r == RemoveMatchLoop(document, ids, payloads, Len(ids))
         IN  IF ~r.raised /\ require_match /\ r.count = 0
                THEN Counted(r.doc, TRUE, 0)
                ELSE r

RELATION_EDITABLE_FIELDS ==
    {"from", "to", "via", "label", "description", "arrowDirection", "color", "secondary"}

\* set_template of an operation that has no `set` (Python's None).
NoTemplate == [unset |-> TRUE]

\* _expand_edit_specs: one (match, set) pair per context, the first of each
\* distinct pair kept.
RenderSet(set_template, context) ==
    IF set_template = NoTemplate THEN NoTemplate ELSE render_template(set_template, context)

expand_edit_specs(match_template, set_template, contexts) ==
    IF contexts = NoneStr
        THEN << [match |-> render_template(match_template, NoneStr),
                 set_values |-> RenderSet(set_template, NoneStr)] >>
    ELSE LET rendered == [i \in DOMAIN contexts |->
                            [match |-> render_template(match_template, contexts[i]),
                             set_values |-> RenderSet(set_template, contexts[i])]]
             kept == SelectSeq([i \in DOMAIN rendered |-> i],
                               LAMBDA i : \A j \in 1..(i - 1) : rendered[j] # rendered[i])
         IN  [i \in DOMAIN kept |-> rendered[kept[i]]]

\* _apply_patch: the cleared keys are popped, then the set values assigned.
\* (The snapshot it compares is ordered; a key that is cleared and set again
\* moves to the end, which a mapping does not show: the calls modelled never
\* clear a key they set.)
PatchOf(relation, set_values, clear_fields) ==
    LET assigned == IF set_values = NoTemplate THEN {} ELSE DOMAIN set_values
    IN  [key \in (DOMAIN relation \ clear_fields) \cup assigned |->
            IF key \in assigned THEN set_values[key] ELSE relation[key]]

apply_patch(relation, set_values, clear_fields) ==
    LET patched == PatchOf(relation, set_values, clear_fields)
    IN  [relation |-> patched,
         raised |-> ~validate_relation_integrity(patched),
         changed |-> patched # relation]

\* The inner loops of edit_relations_match_many over the first n relations of
\* one perspective: the first spec that matches a relation patches it, in
\* place, and the relation counts when the patch changed it.
RECURSIVE EditMatchRelations(_, _, _, _)
EditMatchRelations(relations, specs, clear_fields, n) ==
    IF n = 0 THEN [relations |-> relations, raised |-> FALSE, count |-> 0]
    ELSE LET before_ == EditMatchRelations(relations, specs, clear_fields, n - 1)
             relation == before_.relations[n]
             hits == { j \in DOMAIN specs : relation_matches(relation, specs[j].match) }
         IN  IF before_.raised \/ hits = {} THEN before_
             ELSE LET j == CHOOSE h \in hits : \A g \in hits : h <= g
                      r == apply_patch(relation, specs[j].set_values, clear_fields)
                  IN  [relations |-> [before_.relations EXCEPT ![n] = r.relation],
                       raised |-> r.raised,
                       count |-> IF ~r.raised /\ r.changed
                                    THEN before_.count + 1 ELSE before_.count]

\* The outer loop of edit_relations_match_many over the first n perspectives.
RECURSIVE EditMatchLoop(_, _, _, _, _)
EditMatchLoop(document, perspective_ids, specs, clear_fields, n) ==
    IF n = 0 THEN Counted(document, FALSE, 0)
    ELSE LET before_ == EditMatchLoop(document, perspective_ids, specs, clear_fields, n - 1)
             d == before_.doc
         IN  IF before_.raised THEN before_
             ELSE IF ~FoundPerspective(d, perspective_ids[n])
                THEN Counted(d, TRUE, before_.count)
             ELSE LET index == get_single_perspective(d, perspective_ids[n])
                      node == d["perspectives"][index]
                      relations == SeqOf(node, "relations")
                      r == EditMatchRelations(relations, specs, clear_fields, Len(relations))
                  IN  IF ~Has(node, "relations") THEN before_
                      ELSE Counted(SetPerspective(d, index,
                                        SetKey(node, "relations", r.relations)),
                                   r.raised,
                                   before_.count + r.count)

edit_relations_match_many(document, target, contexts, match_template, set_template, clear_fields, require_match) ==
    IF ~(clear_fields \subseteq RELATION_EDITABLE_FIELDS) THEN Counted(document, TRUE, 0)
    ELSE IF \/ TargetsRaise(document, target, contexts, match_template)
            \/ (set_template # NoTemplate /\ RenderRaises(set_template, contexts))
        THEN Counted(document, TRUE, 0)
    ELSE LET ids == resolve_perspectives(document, target)
             specs == expand_edit_specs(match_template, set_template, contexts)
             r == EditMatchLoop(document, ids, specs, clear_fields, Len(ids))
         IN  IF ~r.raised /\ require_match /\ r.count = 0
                THEN Counted(r.doc, TRUE, 0)
                ELSE r

(***************************************************************************)
(* core/validators.py.  An issue is [code, container, key, token]; the     *)
(* message text is not modelled.                                           *)
(***************************************************************************)
Issue(code, container, key, token) ==
    [code |-> code, container |-> container, key |-> key, token |-> token]

Count(list, x) == Cardinality({ i \in DOMAIN list : list[i] = x })

check_duplicate_resource_ids(document) ==
    LET explicit == SelectSeq(build_resource_locations(document),
                              LAMBDA path : HasExplicitId(NodeAt(document, path)))
        ids == [i \in DOMAIN explicit |-> Strip(NodeAt(document, explicit[i])["id"])]
        dup == SelectSeq([i \in DOMAIN explicit |-> i],
                         LAMBDA i : Count(ids, ids[i]) > 1)
    IN  [j \in DOMAIN dup |->
            Issue("duplicate-resource-id", At(0, explicit[dup[j]]), "id", ids[dup[j]])]

check_duplicate_perspective_ids(document) ==
    LET ps == SeqOf(document, "perspectives")
        explicit == SelectSeq([i \in DOMAIN ps |-> i], LAMBDA i : HasExplicitId(ps[i]))
        ids == [i \in DOMAIN explicit |-> Strip(ps[explicit[i]]["id"])]
        dup == SelectSeq([i \in DOMAIN explicit |-> i],
                         LAMBDA i : Count(ids, ids[i]) > 1)
    IN  [j \in DOMAIN dup |->
            Issue("duplicate-perspective-id", At(explicit[dup[j]], <<>>), "id",
                  ids[dup[j]])]

HasRestrictedChar(value) == Range(value) \cap RESTRICTED_RESOURCE_ID_CHARS # {}

first_restricted_char(value) ==
    <<value[CHOOSE i \in DOMAIN value :
                /\ value[i] \in RESTRICTED_RESOURCE_ID_CHARS
                /\ \A j \in 1..(i - 1) : value[j] \notin RESTRICTED_RESOURCE_ID_CHARS]>>

check_restricted_chars(document) ==
    LET locations == build_resource_locations(document)
        ps == SeqOf(document, "perspectives")
        ofResource(path) ==
            LET node == NodeAt(document, path)
            IN  (IF Has(node, "id") /\ HasRestrictedChar(node["id"])
                    THEN <<Issue("restricted-resource-id-char", At(0, path), "id",
                                 first_restricted_char(node["id"]))>>
                    ELSE <<>>)
                \o
                (IF Has(node, "name") /\ ~Has(node, "id")
                        /\ HasRestrictedChar(node["name"])
                    THEN <<Issue("name-needs-id", At(0, path), "name",
                                 first_restricted_char(node["name"]))>>
                    ELSE <<>>)
        ofPerspective(pindex) ==
            LET aliases == SeqOf(ps[pindex], "aliases")
                bad == SelectSeq([i \in DOMAIN aliases |-> i],
                                 LAMBDA i : /\ Has(aliases[i], "alias")
                                            /\ HasRestrictedChar(aliases[i]["alias"]))
            IN  [j \in DOMAIN bad |->
                    Issue("restricted-alias-char", At(pindex, <<bad[j]>>), "alias",
                          first_restricted_char(aliases[bad[j]]["alias"]))]
    IN  Flatten([i \in DOMAIN locations |-> ofResource(locations[i])])
        \o Flatten([i \in DOMAIN ps |-> ofPerspective(i)])

collect_known_identifiers(document) ==
    LET nodes == { NodeAt(document, path) :
                     path \in Range(build_resource_locations(document)) }
        ps == Range(SeqOf(document, "perspectives"))
    IN  { Strip(n["id"]) : n \in { m \in nodes : HasExplicitId(m) } }
        \cup { Strip(n["name"]) :
                 n \in { m \in nodes : Has(m, "name") /\ Strip(m["name"]) # <<>> } }
        \cup { perspective_identifier(q) :
                 q \in { r \in ps : perspective_identifier(r) # NoneStr } }

\* _build_perspective_aliases()[identifier]: the alias names of the LAST
\* perspective carrying the identifier (later entries overwrite earlier ones).
build_perspective_aliases(document, identifier) ==
    LET ps == SeqOf(document, "perspectives")
        same == { i \in DOMAIN ps : perspective_identifier(ps[i]) = identifier }
        last == CHOOSE i \in same : \A j \in same : j <= i
    IN  IF same = {} THEN {}
        ELSE { a["alias"] :
                 a \in { b \in Range(SeqOf(ps[last], "aliases")) : Has(b, "alias") } }

build_import_namespaces(document) ==
    { Strip(item["namespace"]) :
        item \in { it \in Range(SeqOf(document, "imports")) :
                     Has(it, "namespace") /\ Strip(it["namespace"]) # <<>> } }

\* token.split("::", 1)[0]
RECURSIVE NamespaceOf(_)
NamespaceOf(token) ==
    IF token = <<>> THEN <<>>
    ELSE IF StartsWith(token, <<":", ":">>) THEN <<>>
    ELSE <<Head(token)>> \o NamespaceOf(Tail(token))

IsBroken(document, component, aliases, mode) ==
    /\ ~component.special
    /\ ~component.wildcard
    /\ component.token \notin collect_known_identifiers(document)
    /\ component.token \notin aliases
    /\ component.namespaced =>
          /\ NamespaceOf(component.token) \notin build_import_namespaces(document)
          /\ mode # "ilograph-native"

check_broken_references(document, mode) ==
    LET fields == iter_reference_fields(document, FALSE)
        ofField(field) ==
            LET components == parse_reference_components(field.value)
                aliases == build_perspective_aliases(document, field.perspective)
                \* the first component of each distinct broken token
                firsts == SelectSeq([i \in DOMAIN components |-> i],
                    LAMBDA i :
                        /\ IsBroken(document, components[i], aliases, mode)
                        /\ \A j \in 1..(i - 1) :
                              components[j].token # components[i].token
                                \/ ~IsBroken(document, components[j], aliases, mode))
            IN  [j \in DOMAIN firsts |->
                    Issue("broken-reference", field.container, field.key,
                          components[firsts[j]].token)]
    IN  Flatten([i \in DOMAIN fields |-> ofField(fields[i])])

validate_document(document, mode) ==
    check_duplicate_resource_ids(document)
        \o check_duplicate_perspective_ids(document)
        \o check_restricted_chars(document)
        \o check_broken_references(document, mode)

(***************************************************************************)
(* core/reference_resolution.py: per-token status rows.                    *)
(***************************************************************************)
\* _collect_resource_reference_index(document).get(token, []): one entry for
\* an id equal to the token and one for a name equal to it, in walk order.
collect_resource_reference_index(document, token) ==
    LET locations == build_resource_locations(document)
        entries(path) ==
            LET node == NodeAt(document, path)
            IN  (IF HasExplicitId(node) /\ Strip(node["id"]) = token
                    THEN <<path>> ELSE <<>>)
                \o (IF Has(node, "name") /\ Strip(node["name"]) # <<>>
                        /\ Strip(node["name"]) = token
                       THEN <<path>> ELSE <<>>)
    IN  Flatten([i \in DOMAIN locations |-> entries(locations[i])])

\* _resolve_aliases_for_perspective: alias name -> target, as the entries of
\* the first perspective carrying the identifier; a later entry for the same
\* alias name replaces an earlier one.
resolve_aliases_for_perspective(document, perspective) ==
    LET ps == SeqOf(document, "perspectives")
        same == { i \in DOMAIN ps : perspective_identifier(ps[i]) = perspective }
        first == CHOOSE i \in same : \A j \in same : i <= j
    IN  IF perspective = NoneStr \/ same = {} THEN <<>>
        ELSE SelectSeq(SeqOf(ps[first], "aliases"),
                       LAMBDA a : Has(a, "alias") /\ Has(a, "for"))

AliasTarget(aliases, token) ==
    LET hits == { i \in DOMAIN aliases : aliases[i]["alias"] = token }
    IN  aliases[CHOOSE i \in hits : \A j \in hits : j <= i]["for"]

ResolveRow(part, token, status, details) ==
    [part |-> part, token |-> token, status |-> status, details |-> details]

\* The row of one parsed component.
ResolveComponent(document, part, component, aliases) ==
    LET token == component.token
        paths == collect_resource_reference_index(document, token)
    IN  IF component.special THEN ResolveRow(part, token, "special", <<>>)
        ELSE IF component.wildcard THEN ResolveRow(part, token, "wildcard", <<>>)
        ELSE IF \E i \in DOMAIN aliases : aliases[i]["alias"] = token
            THEN ResolveRow(part, token, "alias", AliasTarget(aliases, token))
        ELSE IF component.namespaced
            THEN IF NamespaceOf(token) \in build_import_namespaces(document)
                    THEN ResolveRow(part, token, "imported-namespace", <<>>)
                    ELSE ResolveRow(part, token, "unresolved-namespace", <<>>)
        ELSE IF paths = <<>> THEN ResolveRow(part, token, "unresolved", <<>>)
        ELSE IF Len(paths) > 1 THEN ResolveRow(part, token, "ambiguous", paths)
        ELSE ResolveRow(part, token, "resolved", paths)

\* resolve_reference(document, reference, perspective): the rows.
resolve_reference(document, reference, perspective) ==
    LET aliases == resolve_aliases_for_perspective(document, perspective)
        parts == split_reference_list(reference)
        ofPart(part) ==
            LET components == parse_reference_components(part)
            IN  IF components = <<>>
                    THEN <<ResolveRow(part, <<"-">>, "empty", <<>>)>>
                ELSE [i \in DOMAIN components |->
                        ResolveComponent(document, part, components[i], aliases)]
    IN  IF parts = <<>> THEN <<ResolveRow(reference, <<"-">>, "empty", <<>>)>>
        ELSE Flatten([i \in DOMAIN parts |-> ofPart(parts[i])])

(***************************************************************************)
(* core/normalize.py: what the argument models accept as a resource id.    *)
(***************************************************************************)
validate_resource_id(value) ==
    /\ Strip(value) # <<>>
    /\ Range(Strip(value)) \cap RESTRICTED_RESOURCE_ID_CHARS = {}

(***************************************************************************)
(* Documents the checks start from.                                        *)
(***************************************************************************)
IdA == <<"a">>
IdB == <<"b">>
IdP == <<"p">>
IdAX == <<"a", "_", "x">>
IdN == <<"n">>
IdMissing == <<"z", "z">>
IdV == <<"v">>
IdW == <<"w">>
AliasName == <<"a", "l">>
\* ids the argument models accept although the regex engine reads them as templates
IdGroupZero == <<"\\", "g", "<", "0", ">">>
IdGroupOne == <<"x", "\\", "1">>

MainResources ==
    << [id |-> IdP, name |-> <<"P">>,
        children |-> << [id |-> IdA, name |-> <<"A">>, style |-> <<"s">>],
                        [id |-> IdB, name |-> <<"B">>, instanceOf |-> IdA] >>],
       [id |-> IdAX, name |-> <<"X">>] >>

MainView ==
    [id |-> IdV, name |-> <<"V">>,
     relations |-> << [from |-> IdA, to |-> <<"b", ",", "a", "_", "x">>],
                      [from |-> <<"p", "/", "a">>, via |-> IdAX, label |-> <<"l">>],
                      [from |-> IdB] >>,
     overrides |-> << [resourceId |-> IdA, parentId |-> IdP],
                      [resourceId |-> IdB, scale |-> <<"2">>] >>,
     aliases |-> << [alias |-> AliasName, for |-> <<"a", ",", "b">>] >>,
     walkthrough |-> << [select |-> IdA, text |-> <<"t">>] >>,
     sequence |-> [start |-> IdA,
                   steps |-> << [to |-> IdB,
                                 subSequence |->
                                    [steps |-> << [toAndBack |-> IdA] >>]] >>]]

BareView == [id |-> IdW, name |-> <<"W">>]

DocMain ==
    [resources |-> MainResources,
     perspectives |-> <<MainView, BareView>>,
     contexts |-> << [name |-> IdA, extends |-> IdAX], [name |-> IdN] >>]

\* a flat document whose second resource is identified by its name only
DocFlat ==
    [resources |-> << [id |-> IdA, name |-> <<"A">>], [name |-> IdB],
                      [id |-> IdP, name |-> <<"P">>] >>,
     perspectives |-> << [id |-> IdV,
                          relations |-> << [from |-> IdA, to |-> IdB] >>] >>]

\* a forest of depth three: p / K / a, and b with a child that has a name only
DocDeep ==
    [resources |-> << [id |-> IdP, name |-> <<"P">>,
                       children |-> << [name |-> <<"K">>,
                                        children |-> << [id |-> IdA, name |-> <<"A">>] >>] >>],
                      [id |-> IdB, name |-> <<"B">>,
                       children |-> << [name |-> <<"L">>] >>] >>,
     perspectives |-> << [id |-> IdV, relations |-> << [from |-> IdA, to |-> IdB] >>] >>]

\* a document whose references are of every kind: resource id (a), resource
\* name (b), alias of the perspective (s), special (none), wildcard (*),
\* namespaced with a declared import (I::t) and without (E::t), unknown (zz),
\* and the identifier of a perspective (w); resource d has its id as its
\* name, and the name A is shared by two resources
DocRefs ==
    [resources |-> << [id |-> IdA, name |-> <<"A">>], [name |-> IdB],
                      [id |-> <<"d">>, name |-> <<"d">>],
                      [id |-> <<"e">>, name |-> <<"A">>] >>,
     imports |-> << [namespace |-> <<"I">>, from |-> <<"f">>] >>,
     contexts |-> << [name |-> <<"x">>], [name |-> <<"y">>] >>,
     perspectives |->
        << [id |-> IdV,
            aliases |-> << [alias |-> AliasName, for |-> IdA] >>,
            relations |-> << [from |-> IdA \o <<",", " ">> \o AliasName,
                              to |-> <<"I", ":", ":", "t">>],
                             [from |-> <<"E", ":", ":", "t">>, to |-> IdMissing],
                             [from |-> IdW, to |-> <<"*">>],
                             [from |-> <<"n", "o", "n", "e">>, to |-> IdB] >>],
           [id |-> IdW,
            relations |-> << [from |-> AliasName, to |-> IdA] >>] >>]

InitDocs == {DocMain, DocFlat, DocDeep, DocRefs}

(***************************************************************************)
(* Mutation-engine harness: one engine call on a document, as a CLI        *)
(* command or a batch operation makes it.  mdoc is the in-memory document  *)
(* as the call left it, mprev the document the call was given.             *)
(***************************************************************************)
NotCalled == [op |-> "none", args |-> <<>>, raised |-> FALSE, changed |-> FALSE]

Idle ==
    /\ file = <<>> /\ lock = 0 /\ pc = <<>> /\ cmd = <<>> /\ before = <<>>
    /\ loaded = <<>> /\ doc = <<>> /\ k = <<>> /\ chg = <<>> /\ outcome = <<>>
    /\ wrote = <<>> /\ atStart = <<>> /\ edits = 0

InitOps ==
    /\ Idle
    /\ mdoc \in InitDocs
    /\ mprev = mdoc
    /\ mlast = NotCalled
    /\ rw = <<>> /\ pf = <<>>

EngineCall(op, args, result) ==
    /\ mlast.op = "none"
    /\ mprev' = mdoc
    /\ mdoc' = result.doc
    /\ mlast' = [op |-> op, args |-> args,
                 raised |-> result.raised, changed |-> result.changed]
    /\ UNCHANGED <<runnerVars, rw, pf>>

ResourceIds == {IdA, IdB, IdP, IdAX, IdMissing}
NewResourceIds == {IdN, IdB, IdGroupZero, IdGroupOne}
ParentIds == {IdA, IdP, IdAX, IdMissing}
PerspectiveIds == {IdV, IdW, IdMissing}
IdLists == { <<IdA>>, <<IdA, IdB>>, <<IdA, IdMissing>>, <<IdB, IdA, IdP>>, <<IdA, IdA>> }
InsertIndexes == {0, 1, 3}
RelationIndexes == {1, 3, 4}
RelationEdits ==
    { [set |-> [to |-> IdP], clear |-> {}],
      [set |-> <<>>, clear |-> {"from"}],
      [set |-> <<>>, clear |-> {"via", "label"}],
      [set |-> [from |-> IdA, color |-> <<"r">>], clear |-> {"to"}] }
RelationPayloads == { [from |-> IdA, to |-> IdP], [to |-> IdMissing], [label |-> <<"l">>] }

CallCreateResource ==
    \E id \in NewResourceIds, parent \in ParentIds \cup {NONE_TOKEN} :
        /\ validate_resource_id(id)
        /\ EngineCall("create_resource", [id |-> id, parent |-> parent],
                      create_resource(mdoc, id, <<"N">>, parent))

CallRenameResource ==
    \E id \in ResourceIds, name \in {<<"A">>, <<"R">>} :
        EngineCall("rename_resource", [id |-> id, name |-> name],
                   rename_resource(mdoc, id, name))

CallRenameResourceId ==
    \E old \in ResourceIds, new \in NewResourceIds :
        /\ validate_resource_id(new)
        /\ old # new
        /\ EngineCall("rename_resource_id", [old |-> old, new |-> new],
                      rename_resource_id(mdoc, old, new))

CallMoveResource ==
    \E id \in ResourceIds, parent \in ParentIds, inherit \in BOOLEAN :
        EngineCall("move_resource", [id |-> id, parent |-> parent, inherit |-> inherit],
                   move_resource(mdoc, id, parent, inherit))

CallMoveMany ==
    \E ids \in IdLists, parent \in {IdAX, IdMissing, NONE_TOKEN} :
        EngineCall("move_many", [ids |-> ids, parent |-> parent],
                   move_many(mdoc, ids, parent))

\* a second move on the document a first move left: the operations of one
\* command are applied one after the other on the same document (mprev stays
\* the document before the first move)
CallMoveAgain ==
    /\ mlast.op \in {"move_resource", "move_many"} /\ ~mlast.raised
    /\ \E id \in ResourceIds, parent \in ParentIds \cup {NONE_TOKEN} :
          \E r \in {MoveOne(mdoc, id, parent)} :
              /\ mdoc' = r.doc
              /\ mlast' = [op |-> "move_sequence",
                           args |-> [first |-> mlast.args, id |-> id, parent |-> parent,
                                     between |-> mdoc],
                           raised |-> r.raised, changed |-> r.changed]
    /\ UNCHANGED <<mprev, runnerVars, rw, pf>>

PerspectiveTargets ==
    { [all |-> TRUE, ids |-> <<>>] }
        \cup { [all |-> FALSE, ids |-> ids] :
                 ids \in { <<IdV>>, <<IdW>>, <<IdV, IdW>>, <<IdV, IdV>>, <<IdMissing>> } }

ContextTargets ==
    { NoneStr, <<>>, << <<"x">> >>, << <<"x">>, <<"y">> >>, << <<"x">>, <<"x">> >>,
      << IdMissing >> }

RelationTemplates ==
    { [from |-> IdA, to |-> IdB],
      [from |-> IdN, to |-> <<"d", "_">> \o CONTEXT_TOKEN],
      [from |-> IdN],
      [to |-> IdN, secondary |-> TRUE],
      [label |-> <<"l">>] }

CallAddRelationMany ==
    \E target \in PerspectiveTargets, contexts \in ContextTargets,
       template \in RelationTemplates :
        /\ mlast.op = "none"
        /\ \E r \in {add_relation_many(mdoc, target, contexts, template)} :
            EngineCall("add_relation_many",
                       [target |-> target, contexts |-> contexts,
                        template |-> template, added |-> r.count],
                       r)

\* remove_relations_match_many with the template and the targets of the
\* add_relation_many that has just returned; mprev stays the document before
\* the add.
CallRemoveRelationsMatchMany ==
    \E require_match \in BOOLEAN :
        /\ mlast.op = "add_relation_many" /\ ~mlast.raised
        /\ \E r \in {remove_relations_match_many(mdoc, mlast.args.target,
                           mlast.args.contexts, mlast.args.template, require_match)} :
              /\ mdoc' = r.doc
              /\ mlast' = [op |-> "remove_relations_match_many",
                           args |-> [target |-> mlast.args.target,
                                     contexts |-> mlast.args.contexts,
                                     template |-> mlast.args.template,
                                     added |-> mlast.args.added,
                                     removed |-> r.count,
                                     requireMatch |-> require_match,
                                     afterAdd |-> mdoc],
                           raised |-> r.raised, changed |-> r.changed]
        /\ UNCHANGED <<mprev, runnerVars, rw, pf>>

MatchTemplates ==
    { [from |-> IdA], [from |-> IdA, to |-> IdB], [from |-> IdN],
      [to |-> IdB, secondary |-> FALSE],
      [to |-> <<"d", "_">> \o CONTEXT_TOKEN] }

SetTemplates ==
    { NoTemplate, [to |-> IdB], [label |-> <<"l">>],
      [label |-> CONTEXT_TOKEN], [secondary |-> TRUE] }

ClearFields == { {}, {"via"}, {"from", "to"}, {"style"} }

\* remove_relations_match_many as relation.remove-match calls it on a
\* document as loaded.
CallRemoveMatch ==
    \E target \in PerspectiveTargets, contexts \in ContextTargets,
       match \in MatchTemplates, require_match \in BOOLEAN :
        /\ mlast.op = "none"
        /\ \E r \in {remove_relations_match_many(mdoc, target, contexts, match,
                                                 require_match)} :
            EngineCall("remove_match",
                       [target |-> target, contexts |-> contexts, match |-> match,
                        requireMatch |-> require_match, count |-> r.count],
                       r)

\* edit_relations_match_many as relation.edit-match calls it; a call never
\* clears a field that it sets.
CallEditRelationsMatchMany ==
    \E target \in PerspectiveTargets, contexts \in ContextTargets,
       match \in MatchTemplates, set_ \in SetTemplates, clear \in ClearFields,
       require_match \in BOOLEAN :
        /\ mlast.op = "none"
        /\ set_ # NoTemplate => clear \cap DOMAIN set_ = {}
        /\ \E r \in {edit_relations_match_many(mdoc, target, contexts, match, set_,
                                               clear, require_match)} :
              EngineCall("edit_match",
                         [target |-> target, contexts |-> contexts, match |-> match,
                          set |-> set_, clear |-> clear,
                          requireMatch |-> require_match, count |-> r.count],
                         r)

ReferenceExpressions ==
    { <<>>, IdA, <<"A">>, IdB, <<"d">>, IdMissing, AliasName, <<"*">>,
      <<"n", "o", "n", "e">>, <<"I", ":", ":", "t">>, <<"E", ":", ":", "t">>,
      IdA \o <<",", " ">> \o IdMissing, IdB \o <<"/">> \o IdA, <<",", " ">> }

\* resolve_reference as the resolve command runs it: the document is read only.
CallResolveReference ==
    \E reference \in ReferenceExpressions, perspective \in {NoneStr, IdV, IdW} :
        /\ mlast.op = "none"
        /\ mprev' = mdoc
        /\ mdoc' = mdoc
        /\ mlast' = [op |-> "resolve_reference",
                     args |-> [reference |-> reference, perspective |-> perspective,
                               rows |-> resolve_reference(mdoc, reference, perspective)],
                     raised |-> FALSE, changed |-> FALSE]
        /\ UNCHANGED <<runnerVars, rw, pf>>

\* validate_document as the check command runs it: the document is read only.
CallValidateDocument ==
    \E mode \in {"strict", "ilograph-native"} :
        /\ mlast.op = "none"
        /\ mprev' = mdoc
        /\ mdoc' = mdoc
        /\ mlast' = [op |-> "validate_document",
                     args |-> [mode |-> mode, issues |-> validate_document(mdoc, mode)],
                     raised |-> FALSE, changed |-> FALSE]
        /\ UNCHANGED <<runnerVars, rw, pf>>

CallCloneResource ==
    \E id \in ResourceIds, new \in {IdN, IdA},
       parent \in {NoneStr, NONE_TOKEN, IdB, IdMissing},
       name \in {NoneStr, <<"C">>}, deep \in BOOLEAN :
        EngineCall("clone_resource",
                   [id |-> id, new |-> new, parent |-> parent, name |-> name,
                    withChildren |-> deep],
                   clone_resource(mdoc, id, new, parent, name, deep))

CallDeleteResource ==
    \E id \in ResourceIds, subtree \in BOOLEAN :
        EngineCall("delete_resource", [id |-> id, subtree |-> subtree],
                   delete_resource(mdoc, id, subtree))

CallAddRelation ==
    \E perspective \in PerspectiveIds, payload \in RelationPayloads :
        EngineCall("add_relation", [perspective |-> perspective, payload |-> payload],
                   add_relation(mdoc, perspective, payload))

CallRemoveRelation ==
    \E perspective \in PerspectiveIds, index \in RelationIndexes :
        EngineCall("remove_relation", [perspective |-> perspective, index |-> index],
                   remove_relation(mdoc, perspective, index))

CallEditRelation ==
    \E perspective \in PerspectiveIds, index \in RelationIndexes, e \in RelationEdits :
        EngineCall("edit_relation",
                   [perspective |-> perspective, index |-> index, edit |-> e],
                   edit_relation(mdoc, perspective, index, e.set, e.clear))

CallAddAlias ==
    \E perspective \in PerspectiveIds, alias \in {AliasName, IdN},
       index \in InsertIndexes :
        EngineCall("add_alias",
                   [perspective |-> perspective, alias |-> alias, index |-> index],
                   add_alias(mdoc, perspective, alias, IdA, index))

CallAddOverride ==
    \E perspective \in PerspectiveIds, id \in {IdA, IdP},
       parent \in {IdAX, NoneStr}, scale \in {<<"2">>, NoneStr},
       index \in InsertIndexes :
        EngineCall("add_override",
                   [perspective |-> perspective, id |-> id, parent |-> parent,
                    scale |-> scale, index |-> index],
                   add_override(mdoc, perspective, id, parent, scale, index))

CallEditOverride ==
    \E perspective \in PerspectiveIds, id \in {IdA, IdB, IdMissing},
       new \in {NoneStr, IdB, IdN}, parent \in {NoneStr, IdAX},
       clearParent \in BOOLEAN, clearScale \in BOOLEAN :
        EngineCall("edit_override",
                   [perspective |-> perspective, id |-> id, new |-> new,
                    parent |-> parent, clearParent |-> clearParent,
                    clearScale |-> clearScale],
                   edit_override(mdoc, perspective, id, new, parent, NoneStr,
                                 clearParent, clearScale))

NextOps ==
    \/ CallCreateResource
    \/ CallRenameResource
    \/ CallRenameResourceId
    \/ CallMoveResource
    \/ CallMoveMany
    \/ CallMoveAgain
    \/ CallAddRelationMany
    \/ CallRemoveRelationsMatchMany
    \/ CallRemoveMatch
    \/ CallEditRelationsMatchMany
    \/ CallValidateDocument
    \/ CallResolveReference
    \/ CallCloneResource
    \/ CallDeleteResource
    \/ CallAddRelation
    \/ CallRemoveRelation
    \/ CallEditRelation
    \/ CallAddAlias
    \/ CallAddOverride
    \/ CallEditOverride

SpecOps == InitOps /\ [][NextOps]_vars

(***************************************************************************)
(* ops/dispatch.py: a batch operation is a record [kind, ...]; apply_op    *)
(* dispatches on its kind to one mutation-engine call.                     *)
(***************************************************************************)
apply_op(op, document) ==
    CASE op.kind = "rename.resource" -> rename_resource(document, op.id, op.name)
      [] op.kind = "resource.create" ->
            create_resource(document, op.id, op.name, op.parent)
      [] op.kind = "resource.delete" ->
            delete_resource(document, op.id, op.deleteSubtree)
      [] op.kind = "rename.resource-id" -> rename_resource_id(document, op.from, op.to)
      [] op.kind = "move.resource" ->
            move_resource(document, op.id, op.newParent, op.inheritStyleFromParent)
      [] op.kind = "group.move-many" -> move_many(document, op.ids, op.newParent)
      [] op.kind = "relation.add" -> add_relation(document, op.perspective, op.payload)
      [] op.kind = "relation.remove" ->
            remove_relation(document, op.perspective, op.index)
      [] op.kind = "fmt.stable" -> Ok(document, FALSE)

\* `changed = apply_op(op, document) or changed`, given what apply_op did.
Accumulate(r, changed) ==
    [doc |-> r.doc, raised |-> r.raised, changed |-> r.changed \/ changed]

\* One turn of the loop of apply_ops_batch with the failure swallowed.
ApplyOpsBatchStep_SwallowRaise(op, document, changed) ==
    [Accumulate(apply_op(op, document), changed) EXCEPT !.raised = FALSE]

\* One turn of the loop of apply_ops_batch whose effect on the document is lost.
ApplyOpsBatchStep_OnCopy(op, document, changed) ==
    [Accumulate(apply_op(op, document), changed) EXCEPT !.doc = document]

\* One turn of the loop of apply_ops_batch:
\*     changed = apply_op(op, document) or changed
\* A raise leaves the loop with the document as the failed call left it.
ApplyOpsBatchStep(op, document, changed) ==
    Accumulate(apply_op(op, document), changed)

(***************************************************************************)
(* io/yaml_io.py.  A text is [body, style]: the document it parses to and  *)
(* the sequence-indent style it is written in.  Comments, quoting and key  *)
(* order are not represented.                                              *)
(***************************************************************************)
Text(body, style) == [body |-> body, style |-> style]

detect_format_profile(raw) == raw.style

load_document(raw) == raw.body

dump_document(document, format_profile) == Text(document, format_profile)

(***************************************************************************)
(* The two helpers of io/yaml_io.py that MutationRunner imports and whose  *)
(* bodies are not part of the sources at hand, as the specification        *)
(* describes them: an advisory lock that fails at once when held (zero     *)
(* lock wait) and a write that replaces the file only when its content     *)
(* still equals expected_before.                                           *)
(***************************************************************************)
file_lock_acquire(holder, p) ==
    IF holder = 0 THEN [acquired |-> TRUE, lock |-> p]
    ELSE [acquired |-> FALSE, lock |-> holder]

file_lock_release(holder, p) == IF holder = p THEN 0 ELSE holder

write_text_atomic(current, text, expected_before) ==
    IF current = expected_before THEN [ok |-> TRUE, file |-> text]
    ELSE [ok |-> FALSE, file |-> current]

(***************************************************************************)
(* cli_support.py: MutationRunner                                          *)
(***************************************************************************)
\* _ensure_document_valid_for_write raises when strict validation finds issues.
EnsureValid_NeverRaises(document) == FALSE

ensure_document_valid_for_write_raises(document) ==
    validate_document(document, "strict") # <<>>

\* Entering run(): a dry run goes straight to _run_once, any other run enters
\* `with file_lock(...)` first.
RunEnter_WithoutLock(holder, p, dry) == [acquired |-> TRUE, lock |-> holder]

RunEnter_LockAlways(holder, p, dry) == file_lock_acquire(holder, p)

RunEnter(holder, p, dry) ==
    IF dry THEN [acquired |-> TRUE, lock |-> holder]
    ELSE file_lock_acquire(holder, p)

\* Leaving run(): the `with` block releases the lock however _run_once ended.
RunLeave_OnSuccessOnly(holder, p, dry, how) ==
    IF dry \/ how # "updated" THEN holder ELSE file_lock_release(holder, p)

RunLeave(holder, p, dry, how) ==
    IF dry THEN holder ELSE file_lock_release(holder, p)

\* write_text_atomic(file_path, after, expected_before=before)
WriteCall_NoExpectation(current, after, snapshot) ==
    write_text_atomic(current, after, current)

WriteCall(current, after, snapshot) == write_text_atomic(current, after, snapshot)

\* _run_once that goes on to validate and serialize whatever the mutator reported.
run_once_outcome_IgnoresHint(changed_hint, document, before_, dry_run) ==
    IF ensure_document_valid_for_write_raises(document) THEN "invalid"
    ELSE IF dump_document(document, detect_format_profile(before_)) = before_
        THEN "unchanged"
    ELSE IF dry_run THEN "dryrun"
    ELSE "none"

\* _run_once after the mutator returned: how the run ends, or "none" when it
\* goes on to write_text_atomic.  The order is that of the code: changed_hint,
\* the strict write gate, the dump and its comparison with the snapshot, dry_run.
run_once_outcome(changed_hint, document, before_, dry_run) ==
    IF ~changed_hint THEN "nochange"
    ELSE IF ensure_document_valid_for_write_raises(document) THEN "invalid"
    ELSE IF dump_document(document, detect_format_profile(before_)) = before_
        THEN "unchanged"
    ELSE IF dry_run THEN "dryrun"
    ELSE "none"

Procs == {1, 2}

MaxEdits == 1

OpCreateN ==
    [kind |-> "resource.create", id |-> IdN, name |-> <<"N">>, parent |-> NONE_TOKEN]
OpMoveNUnderP ==
    [kind |-> "move.resource", id |-> IdN, newParent |-> IdP,
     inheritStyleFromParent |-> FALSE]
OpMoveMissing ==
    [kind |-> "move.resource", id |-> IdMissing, newParent |-> IdP,
     inheritStyleFromParent |-> FALSE]
OpDeleteN == [kind |-> "resource.delete", id |-> IdN, deleteSubtree |-> FALSE]
OpRenameIdAToP == [kind |-> "rename.resource-id", from |-> IdA, to |-> IdP]
OpMovePUnderP ==
    [kind |-> "move.resource", id |-> IdP, newParent |-> IdP,
     inheritStyleFromParent |-> FALSE]
OpMovePUnderA ==
    [kind |-> "move.resource", id |-> IdP, newParent |-> IdA,
     inheritStyleFromParent |-> FALSE]
OpCreateNUnderA ==
    [kind |-> "resource.create", id |-> IdN, name |-> <<"N">>, parent |-> IdA]
OpMovePUnderN ==
    [kind |-> "move.resource", id |-> IdP, newParent |-> IdN,
     inheritStyleFromParent |-> FALSE]
OpAddUnknownRelation ==
    [kind |-> "relation.add", perspective |-> IdV,
     payload |-> [from |-> IdMissing, to |-> <<"y", "y">>]]
OpMoveAUnderP ==
    [kind |-> "move.resource", id |-> IdA, newParent |-> IdP,
     inheritStyleFromParent |-> FALSE]
OpMoveAUnderPInherit ==
    [kind |-> "move.resource", id |-> IdA, newParent |-> IdP,
     inheritStyleFromParent |-> TRUE]
OpFmtStable == [kind |-> "fmt.stable"]
OpRenameAToA == [kind |-> "rename.resource", id |-> IdA, name |-> <<"A">>]

Batches ==
    { <<OpCreateN>>,
      <<OpCreateN, OpMoveNUnderP>>,
      <<OpAddUnknownRelation>>,
      <<OpCreateN, OpMoveMissing>>,
      <<OpCreateN, OpDeleteN>>,
      <<OpFmtStable>>,
      <<OpMoveAUnderP>>,
      <<OpMoveAUnderPInherit>>,
      <<OpRenameAToA>>,
      <<OpMovePUnderP>>,
      <<OpRenameIdAToP>>,
      <<OpMovePUnderA>>,
      <<OpCreateNUnderA, OpMovePUnderN>> }

DryBatches == { <<OpCreateN>>, <<OpAddUnknownRelation>>, <<OpCreateN, OpMoveMissing>> }

Commands ==
    { [dry |-> FALSE, ops |-> ops] : ops \in Batches }
        \cup { [dry |-> TRUE, ops |-> ops] : ops \in DryBatches }

\* the diagram the commands run on, and what an editor may replace it with
DocRun ==
    [resources |-> << [id |-> IdP, name |-> <<"P">>,
                       children |-> << [id |-> IdA, name |-> <<"A">>] >>] >>,
     perspectives |-> << [id |-> IdV, relations |-> << [from |-> IdA, to |-> IdP] >>] >>]

DocEdited ==
    [resources |-> << [id |-> IdP, name |-> <<"P">>], [id |-> IdA, name |-> <<"A">>] >>,
     perspectives |-> << [id |-> IdV, relations |-> << [from |-> IdP, to |-> IdA] >>] >>]

\* a diagram that strict validation rejects (its relation names no resource)
DocBroken ==
    [resources |-> << [id |-> IdP, name |-> <<"P">>,
                       children |-> << [id |-> IdB, name |-> <<"B">>],
                                       [id |-> IdA, name |-> <<"A">>,
                                        style |-> <<"s">>] >>] >>,
     perspectives |-> << [id |-> IdV, relations |-> << [from |-> IdMissing, to |-> IdP] >>] >>]

OriginalText == Text(DocRun, "indented")

ExternalTexts == { OriginalText, Text(DocEdited, "indentless"), Text(DocBroken, "indented") }

Init ==
    /\ file = OriginalText
    /\ lock = 0
    /\ pc = [p \in Procs |-> "idle"]
    /\ cmd = [p \in Procs |-> [dry |-> FALSE, ops |-> <<>>]]
    /\ before = [p \in Procs |-> <<>>]
    /\ loaded = [p \in Procs |-> <<>>]
    /\ doc = [p \in Procs |-> <<>>]
    /\ k = [p \in Procs |-> 0]
    /\ chg = [p \in Procs |-> FALSE]
    /\ outcome = [p \in Procs |-> "none"]
    /\ wrote = [p \in Procs |-> FALSE]
    /\ atStart = [p \in Procs |-> <<>>]
    /\ edits = 0
    /\ mdoc = <<>> /\ mprev = <<>> /\ mlast = NotCalled /\ rw = <<>> /\ pf = <<>>

\* run(): the command starts; a mutating command takes the lock or fails at once.
Start(p) ==
    /\ pc[p] = "idle"
    /\ \E c \in Commands :
          LET r == RunEnter(lock, p, c.dry)
          IN  /\ cmd' = [cmd EXCEPT ![p] = c]
              /\ atStart' = [atStart EXCEPT ![p] = file]
              /\ lock' = r.lock
              /\ pc' = [pc EXCEPT ![p] = IF r.acquired THEN "read" ELSE "done"]
              /\ outcome' = [outcome EXCEPT
                                ![p] = IF r.acquired THEN "none" ELSE "locked"]
    /\ UNCHANGED <<file, before, loaded, doc, k, chg, wrote, edits, engineVars, rw, pf>>

\* _run_once: before = read_text(file_path)
ReadText(p) ==
    /\ pc[p] = "read"
    /\ before' = [before EXCEPT ![p] = file]
    /\ pc' = [pc EXCEPT ![p] = "load"]
    /\ UNCHANGED <<file, lock, cmd, loaded, doc, k, chg, outcome, wrote, atStart,
                   edits, engineVars, rw, pf>>

\* _run_once: document = load_document(file_path, ...), which reads the file again
LoadDocument(p) ==
    /\ pc[p] = "load"
    /\ loaded' = [loaded EXCEPT ![p] = load_document(file)]
    /\ doc' = [doc EXCEPT ![p] = load_document(file)]
    /\ k' = [k EXCEPT ![p] = 0]
    /\ chg' = [chg EXCEPT ![p] = FALSE]
    /\ pc' = [pc EXCEPT ![p] = "apply"]
    /\ UNCHANGED <<file, lock, cmd, before, outcome, wrote, atStart, edits,
                   engineVars, rw, pf>>

\* mutator(document): one operation of the batch
ApplyOp(p) ==
    /\ pc[p] = "apply"
    /\ k[p] < Len(cmd[p].ops)
    /\ \E step \in {ApplyOpsBatchStep(cmd[p].ops[k[p] + 1], doc[p], chg[p])} :
           /\ doc' = [doc EXCEPT ![p] = step.doc]
           /\ IF step.raised
                THEN /\ outcome' = [outcome EXCEPT ![p] = "failed"]
                     /\ pc' = [pc EXCEPT ![p] = "exit"]
                     /\ UNCHANGED <<k, chg>>
                ELSE /\ k' = [k EXCEPT ![p] = @ + 1]
                     /\ chg' = [chg EXCEPT ![p] = step.changed]
                     /\ UNCHANGED <<outcome, pc>>
    /\ UNCHANGED <<file, lock, cmd, before, loaded, wrote, atStart, edits,
                   engineVars, rw, pf>>

\* _run_once after the mutator returned: changed_hint, the strict write gate,
\* the dump, the comparison with the snapshot, the dry-run return.
Finish(p) ==
    /\ pc[p] = "apply"
    /\ k[p] = Len(cmd[p].ops)
    /\ LET how == run_once_outcome(chg[p], doc[p], before[p], cmd[p].dry)
       IN  /\ outcome' = [outcome EXCEPT ![p] = how]
           /\ pc' = [pc EXCEPT ![p] = IF how = "none" THEN "write" ELSE "exit"]
    /\ UNCHANGED <<file, lock, cmd, before, loaded, doc, k, chg, wrote, atStart,
                   edits, engineVars, rw, pf>>

\* _run_once: write_text_atomic(file_path, after, expected_before=before)
WriteTextAtomic(p) ==
    /\ pc[p] = "write"
    /\ LET after == dump_document(doc[p], detect_format_profile(before[p]))
           r == WriteCall(file, after, before[p])
       IN  /\ file' = r.file
           /\ wrote' = [wrote EXCEPT ![p] = r.ok]
           /\ outcome' = [outcome EXCEPT ![p] = IF r.ok THEN "updated" ELSE "conflict"]
    /\ pc' = [pc EXCEPT ![p] = "exit"]
    /\ UNCHANGED <<lock, cmd, before, loaded, doc, k, chg, atStart, edits,
                   engineVars, rw, pf>>

\* run(): _run_once returned or raised; the `with` block is left
Exit(p) ==
    /\ pc[p] = "exit"
    /\ lock' = RunLeave(lock, p, cmd[p].dry, outcome[p])
    /\ pc' = [pc EXCEPT ![p] = "done"]
    /\ UNCHANGED <<file, cmd, before, loaded, doc, k, chg, outcome, wrote, atStart,
                   edits, engineVars, rw, pf>>

\* Another program (an editor) rewrites the file; it does not take the lock.
ExternalEdit ==
    /\ edits < MaxEdits
    /\ \E t \in ExternalTexts \ {file} : file' = t
    /\ edits' = edits + 1
    /\ UNCHANGED <<lock, pc, cmd, before, loaded, doc, k, chg, outcome, wrote,
                   atStart, engineVars, rw, pf>>

Next ==
    \/ \E p \in Procs : Start(p)
    \/ \E p \in Procs : ReadText(p)
    \/ \E p \in Procs : LoadDocument(p)
    \/ \E p \in Procs : ApplyOp(p)
    \/ \E p \in Procs : Finish(p)
    \/ \E p \in Procs : WriteTextAtomic(p)
    \/ \E p \in Procs : Exit(p)
    \/ ExternalEdit

Spec == Init /\ [][Next]_vars

(***************************************************************************)
(* One command and an editor that saves the file up to MaxRevisions times  *)
(* while the command runs: between read_text and load_document, and        *)
(* between load_document and write_text_atomic.                            *)
(***************************************************************************)
MaxRevisions == 2

EditorSave ==
    /\ edits < MaxRevisions
    /\ \E t \in ExternalTexts \ {file} : file' = t
    /\ edits' = edits + 1
    /\ UNCHANGED <<lock, pc, cmd, before, loaded, doc, k, chg, outcome, wrote,
                   atStart, engineVars, rw, pf>>

NextSolo ==
    \/ Start(1)
    \/ ReadText(1)
    \/ LoadDocument(1)
    \/ ApplyOp(1)
    \/ Finish(1)
    \/ WriteTextAtomic(1)
    \/ Exit(1)
    \/ EditorSave

SpecSolo == Init /\ [][NextSolo]_vars

(***************************************************************************)
(* Claims about the MutationRunner transaction.                            *)
(***************************************************************************)
\* The step taken is a step of command p.
StepBy(p) == pc'[p] # pc[p] \/ k'[p] # k[p]

\* Command p is mutating and somewhere between entering and leaving _run_once.
Holding(p) == ~cmd[p].dry /\ pc[p] \in {"read", "load", "apply", "write", "exit"}

StrictIssues(document) == validate_document(document, "strict")

\* The first n operations applied in list order, each to the document the
\* previous one produced, stopping at the first that raises.
RECURSIVE ApplyPrefix(_, _, _)
ApplyPrefix(ops, document, n) ==
    IF n = 0 THEN Ok(document, FALSE)
    ELSE LET prev == ApplyPrefix(ops, document, n - 1)
         IN  IF prev.raised THEN prev ELSE apply_op(ops[n], prev.doc)

\* C1: a non-dry-run command writes the target file only if the mutated
\* in-memory document has zero strict-mode validation issues; when strict
\* validation reports an issue the command fails, writes nothing, and its
\* steps leave the file as it is.
C1_WriteOnlyWhenStrictValid ==
    [][\A p \in Procs :
          StepBy(p) =>
            /\ (file' # file \/ wrote'[p] # wrote[p]) => StrictIssues(doc[p]) = <<>>
            /\ (/\ pc[p] = "apply" /\ k[p] = Len(cmd[p].ops) /\ chg[p]
                /\ StrictIssues(doc[p]) # <<>>)
                  => (outcome'[p] = "invalid" /\ pc'[p] = "exit" /\ file' = file)
            /\ outcome[p] = "invalid" => (file' = file /\ ~wrote'[p])]_vars

C1_Witness ==
    \E p \in Procs :
        /\ pc[p] = "done" /\ outcome[p] = "invalid" /\ ~cmd[p].dry
        /\ StrictIssues(doc[p]) # <<>>
        /\ ~wrote[p] /\ file = atStart[p]

\* C2: a batch is all-or-nothing with respect to the file: a command changes
\* the file only after every operation of its batch succeeded, applied in
\* order, and the final strict validation passed; once an operation raised
\* (even after earlier ones changed the in-memory document) no step of the
\* command writes.
C2_BatchAllOrNothing ==
    [][\A p \in Procs :
          StepBy(p) =>
            /\ file' # file =>
                  /\ k[p] = Len(cmd[p].ops)
                  /\ ~ApplyPrefix(cmd[p].ops, loaded[p], Len(cmd[p].ops)).raised
                  /\ StrictIssues(doc[p]) = <<>>
            /\ outcome[p] = "failed" => (file' = file /\ ~wrote'[p])]_vars

C2_Witness ==
    \E p \in Procs :
        /\ pc[p] = "done" /\ outcome[p] = "failed" /\ ~cmd[p].dry
        /\ k[p] >= 1 /\ doc[p] # loaded[p]
        /\ ~wrote[p] /\ file = atStart[p]

\* C3: mutating commands on one file are mutually exclusive: a non-dry-run
\* command holds the advisory lock from before its first read until it
\* leaves, at most one such command is between its read and its write, and a
\* mutating command started while the lock is held fails immediately without
\* reading, mutating or writing.
C3_MutualExclusion ==
    /\ [](\A p \in Procs : Holding(p) => lock = p)
    /\ [](\A p, q \in Procs : (Holding(p) /\ Holding(q)) => p = q)
    /\ [](\A p \in Procs :
            outcome[p] = "locked" =>
                /\ pc[p] = "done" /\ ~wrote[p]
                /\ before[p] = <<>> /\ doc[p] = <<>>)
    /\ [][\A p \in Procs :
            (pc[p] = "idle" /\ pc'[p] # "idle" /\ ~cmd'[p].dry /\ lock # 0)
                => (outcome'[p] = "locked" /\ file' = file /\ lock' = lock)]_vars

C3_Witness ==
    \E p, q \in Procs :
        /\ Holding(p) /\ pc[p] = "apply" /\ lock = p
        /\ ~cmd[q].dry /\ pc[q] = "done" /\ outcome[q] = "locked"

C5_LockReleasedOnEveryExit ==
    /\ \A p \in Procs : pc[p] \in {"idle", "done"} => lock # p
    /\ (\A p \in Procs : pc[p] \in {"idle", "done"}) => lock = 0

C5_Witness ==
    \E p, q \in Procs :
        /\ pc[p] = "done" /\ outcome[p] = "conflict"
        /\ Holding(q) /\ lock = q

\* C6: a dry run never acquires the advisory lock and never writes: no step
\* of a dry-run command changes the file or the lock.
C6_DryRunNeitherLocksNorWrites ==
    /\ [](\A p \in Procs : cmd[p].dry => (~wrote[p] /\ lock # p))
    /\ [][\A p \in Procs :
            (StepBy(p) /\ cmd'[p].dry) => (file' = file /\ lock' = lock)]_vars

C6_Witness ==
    \E p \in Procs :
        /\ cmd[p].dry /\ pc[p] = "done" /\ outcome[p] = "dryrun"
        /\ doc[p] # loaded[p] /\ file = atStart[p] /\ lock = 0

\* C8: a batch applies its operations one at a time in list order against one
\* shared in-memory document: operation k is applied to exactly the document
\* operations 1..k-1 produced, and when operation k raises, the later
\* operations are never applied.
C8_BatchInOrderOnSharedDocument ==
    /\ [](\A p \in Procs :
            (pc[p] = "apply" /\ outcome[p] = "none") =>
                /\ k[p] <= Len(cmd[p].ops)
                /\ ~ApplyPrefix(cmd[p].ops, loaded[p], k[p]).raised
                /\ doc[p] = ApplyPrefix(cmd[p].ops, loaded[p], k[p]).doc)
    /\ [][\A p \in Procs :
            /\ (pc[p] = "apply" /\ k[p] < Len(cmd[p].ops) /\ StepBy(p)) =>
                  /\ doc'[p] = apply_op(cmd[p].ops[k[p] + 1], doc[p]).doc
                  /\ IF apply_op(cmd[p].ops[k[p] + 1], doc[p]).raised
                        THEN /\ outcome'[p] = "failed" /\ pc'[p] = "exit"
                             /\ k'[p] = k[p]
                        ELSE k'[p] = k[p] + 1 /\ pc'[p] = "apply"
            /\ outcome[p] = "failed" => (k'[p] = k[p] /\ doc'[p] = doc[p])]_vars

C8_Witness ==
    \E p \in Procs :
        /\ cmd[p].ops = <<OpCreateN, OpMoveNUnderP>>
        /\ pc[p] = "apply" /\ k[p] = 2
        /\ ~FoundById(loaded[p], IdN)
        /\ get_single_resource_by_id(doc[p], IdN) = <<1, 2>>

(***************************************************************************)
(* Rewriter harness: one call of replace_reference_identifier.             *)
(***************************************************************************)
MaxLen == 3

RawAlphabet == {"a", "b", "_", ",", " "}

RECURSIVE StringsUpTo(_, _)
StringsUpTo(alphabet, n) ==
    IF n = 0 THEN {<<>>}
    ELSE LET shorter == StringsUpTo(alphabet, n - 1)
         IN  shorter \cup { Append(t, c) : t \in shorter, c \in alphabet }

RewriteOlds == { <<"a">>, <<"a", "b">>, <<"a", "_">> }
RewriteNews ==
    { <<"n">>, <<"a">>, <<"b">>, <<"a", "a">>, <<"a", " ", "b">>, IdGroupZero, IdGroupOne }

InitRewrite ==
    /\ Idle
    /\ mdoc = <<>> /\ mprev = <<>> /\ mlast = NotCalled /\ pf = <<>>
    /\ rw \in { [raw |-> raw, old |-> old, new |-> new, out |-> <<>>, called |-> FALSE,
                 second |-> "none", out2 |-> <<>>] :
                  raw \in StringsUpTo(RawAlphabet, MaxLen),
                  old \in RewriteOlds, new \in RewriteNews }

Rewrite ==
    /\ ~rw.called
    /\ rw' = [rw EXCEPT !.out = replace_reference_identifier(rw.raw, rw.old, rw.new),
                        !.called = TRUE]
    /\ UNCHANGED <<runnerVars, engineVars, pf>>

\* A second call on the value the first call returned, with the same
\* identifiers (re-application).
RewriteAgain ==
    /\ rw.called /\ rw.second = "none" /\ rw.out # ReError
    /\ rw' = [rw EXCEPT !.out2 = replace_reference_identifier(rw.out, rw.old, rw.new),
                        !.second = "again"]
    /\ UNCHANGED <<runnerVars, engineVars, pf>>

\* A second call on the value the first call returned, with the identifiers
\* swapped (the rename back).
RewriteBack ==
    /\ rw.called /\ rw.second = "none" /\ rw.out # ReError
    /\ rw' = [rw EXCEPT !.out2 = replace_reference_identifier(rw.out, rw.new, rw.old),
                        !.second = "back"]
    /\ UNCHANGED <<runnerVars, engineVars, pf>>

NextRewrite == Rewrite \/ RewriteAgain \/ RewriteBack

SpecRewrite == InitRewrite /\ [][NextRewrite]_vars

(***************************************************************************)
(* Splitter harness: split_reference_list on a list of well-formed         *)
(* segments joined with ", ".  A segment is a plain text, a path, or a     *)
(* head followed by a comma-holding group in (...), [...] or quotes.       *)
(***************************************************************************)
MaxParts == 2

SegmentTexts == { <<"a">>, <<"b", "_">> }

Segments ==
    SegmentTexts
        \cup { h \o <<"/">> \o t : h \in SegmentTexts, t \in SegmentTexts }
        \cup { h \o <<"(">> \o l \o <<",">> \o t \o <<")">> :
                 h \in SegmentTexts, l \in SegmentTexts, t \in {<<"a">>} }
        \cup { <<"[">> \o l \o <<",">> \o t \o <<"]">> :
                 l \in SegmentTexts, t \in SegmentTexts }
        \cup { h \o <<" ", q>> \o l \o <<",">> \o t \o <<q>> :
                 h \in SegmentTexts, l \in SegmentTexts, t \in {<<"a">>},
                 q \in {"'", "\""} }

RECURSIVE SeqsUpTo(_, _)
SeqsUpTo(S, n) ==
    IF n = 0 THEN {<<>>}
    ELSE LET shorter == SeqsUpTo(S, n - 1)
         IN  shorter \cup { Append(t, x) : t \in shorter, x \in S }

\* ", ".join(parts)
RECURSIVE Join(_)
Join(parts) ==
    IF parts = <<>> THEN <<>>
    ELSE IF Len(parts) = 1 THEN parts[1]
    ELSE parts[1] \o <<",", " ">> \o Join(Tail(parts))

InitSplit ==
    /\ Idle
    /\ mdoc = <<>> /\ mprev = <<>> /\ mlast = NotCalled /\ rw = <<>>
    /\ pf \in { [parts |-> parts, raw |-> Join(parts), out |-> <<>>, called |-> FALSE] :
                  parts \in SeqsUpTo(Segments, MaxParts) \ {<<>>} }

Split ==
    /\ ~pf.called
    /\ pf' = [pf EXCEPT !.out = split_reference_list(pf.raw), !.called = TRUE]
    /\ UNCHANGED <<runnerVars, engineVars, rw>>

NextSplit == Split

SpecSplit == InitSplit /\ [][NextSplit]_vars

(***************************************************************************)
(* io/yaml_io.py on the text itself.  A text is a list of lines; a line    *)
(* is its leading spaces, whether "- " follows them, its key and its       *)
(* value: none, a plain scalar, or a bracket expression with or without    *)
(* single quotes.  Comment lines, blank lines and end-of-line comments are *)
(* not represented.  The regular expressions of the module are predicates  *)
(* on such a line.  The parser and the emitter are ruamel.yaml's, which    *)
(* the module calls: block mappings and block sequences by indentation,    *)
(* emitted with the indents build_yaml sets.                               *)
(***************************************************************************)
AsciiLetters ==
    {"a","b","c","d","e","f","g","h","i","j","k","l","m","n","o","p","q","r","s","t",
     "u","v","w","x","y","z","A","B","C","D","E","F","G","H","I","J","K","L","M","N",
     "O","P","Q","R","S","T","U","V","W","X","Y","Z"}

REFERENCE_KEYS ==
    { <<"f", "r", "o", "m">>,
      <<"t", "o">>,
      <<"v", "i", "a">>,
      <<"r", "e", "s", "o", "u", "r", "c", "e", "I", "d">>,
      <<"p", "a", "r", "e", "n", "t", "I", "d">>,
      <<"f", "o", "r">>,
      <<"s", "e", "l", "e", "c", "t">>,
      <<"f", "o", "c", "u", "s">>,
      <<"h", "i", "g", "h", "l", "i", "g", "h", "t">>,
      <<"i", "n", "c", "l", "u", "d", "e">>,
      <<"e", "x", "c", "l", "u", "d", "e">>,
      <<"r", "o", "o", "t">>,
      <<"c", "e", "n", "t", "e", "r">>,
      <<"z", "o", "o", "m", "T", "o">>,
      <<"e", "x", "p", "a", "n", "d">>,
      <<"h", "i", "d", "e">>,
      <<"s", "t", "a", "r", "t">>,
      <<"t", "o", "A", "n", "d", "B", "a", "c", "k">>,
      <<"t", "o", "A", "s", "y", "n", "c">>,
      <<"r", "e", "s", "t", "a", "r", "t", "A", "t">> }

NoValue == [kind |-> "none"]
Plain(text) == [kind |-> "plain", text |-> text]
Bracket(text, quoted) == [kind |-> "bracket", text |-> text, quoted |-> quoted]
Block(items) == [kind |-> "seq", items |-> items]

Line(indent, dash, key, value) ==
    [indent |-> indent, dash |-> dash, key |-> key, value |-> value]

\* [A-Za-z_][A-Za-z0-9_]*
IsWordKey(key) ==
    /\ key # <<>>
    /\ key[1] \in AsciiLetters \cup {"_"}
    /\ \A i \in DOMAIN key : key[i] \in AsciiLetters \cup Digits \cup {"_"}

\* [A-Za-z_][A-Za-z0-9_-]*
IsDashedKey(key) ==
    /\ key # <<>>
    /\ key[1] \in AsciiLetters \cup {"_"}
    /\ \A i \in DOMAIN key : key[i] \in AsciiLetters \cup Digits \cup {"_", "-"}

\* _KEY_VALUE_LINE_RE: key: [ ... ]
MatchesKeyValueLine(line) ==
    IsWordKey(line.key) /\ line.value.kind = "bracket" /\ ~line.value.quoted

\* _QUOTED_KEY_VALUE_LINE_RE: key: '[ ... ]'
MatchesQuotedKeyValueLine(line) ==
    IsWordKey(line.key) /\ line.value.kind = "bracket" /\ line.value.quoted

\* _TOP_LEVEL_KEY_LINE_RE: a key at column 0 with nothing after the colon
MatchesTopLevelKeyLine(line) ==
    line.indent = 0 /\ ~line.dash /\ IsDashedKey(line.key) /\ line.value.kind = "none"

\* _TOP_LEVEL_KEY_PREFIX_RE: a key and a colon at column 0
MatchesTopLevelKeyPrefix(line) ==
    line.indent = 0 /\ ~line.dash /\ IsDashedKey(line.key)

\* _SEQUENCE_LINE_RE
MatchesSequenceLine(line) == line.dash

\* _MAP_KEY_LINE_RE: a key at any column with nothing after the colon
MatchesMapKeyLine(line) ==
    ~line.dash /\ IsDashedKey(line.key) /\ line.value.kind = "none"

\* build_yaml: the column of "- " relative to the key that holds the sequence
SequenceOffset(style) == IF style = "indentless" THEN 0 ELSE 2

\* _detect_sequence_indent_style
detect_sequence_indent_style(raw) ==
    LET holders == { i \in DOMAIN raw :
                       /\ MatchesMapKeyLine(raw[i])
                       /\ i + 1 \in DOMAIN raw
                       /\ MatchesSequenceLine(raw[i + 1]) }
        delta(i) == raw[i + 1].indent - raw[i].indent
        zero_delta == Cardinality({ i \in holders : delta(i) = 0 })
        indented_delta == Cardinality({ i \in holders : delta(i) >= 2 })
    IN  IF holders = {} THEN "indented"
        ELSE IF zero_delta >= indented_delta THEN "indentless"
        ELSE "indented"

\* _detect_top_level_sequence_indents: key -> column of its first "- "
detect_top_level_sequence_indents(raw) ==
    LET holders == { i \in DOMAIN raw :
                       /\ MatchesTopLevelKeyLine(raw[i])
                       /\ i + 1 \in DOMAIN raw
                       /\ MatchesSequenceLine(raw[i + 1]) }
        last(key) == CHOOSE i \in holders :
                        /\ raw[i].key = key
                        /\ \A j \in holders : raw[j].key = key => j <= i
    IN  [key \in { raw[i].key : i \in holders } |-> raw[last(key) + 1].indent]

\* _detect_unquoted_reference_brackets
detect_unquoted_reference_brackets(raw) ==
    { <<raw[i].key, raw[i].value.text>> :
        i \in { j \in DOMAIN raw : /\ MatchesKeyValueLine(raw[j])
                                   /\ raw[j].key \in REFERENCE_KEYS } }

YamlFormatProfile(raw) ==
    [sequence_indent_style |-> detect_sequence_indent_style(raw),
     top_level_sequence_indents |-> detect_top_level_sequence_indents(raw),
     unquoted_reference_brackets |-> detect_unquoted_reference_brackets(raw)]

\* _quote_reference_bracket_scalars
quote_reference_bracket_scalars(raw) ==
    [i \in DOMAIN raw |->
        IF MatchesKeyValueLine(raw[i]) /\ raw[i].key \in REFERENCE_KEYS
            THEN [raw[i] EXCEPT !.value = Bracket(raw[i].value.text, TRUE)]
            ELSE raw[i]]

\* yaml.load: the entries of the block mapping whose keys stand at column col,
\* from line i on (first: line i is the "- " line that opens the mapping), and
\* the line after them.  A key with nothing after the colon holds the block
\* sequence that follows at its column or deeper, or nothing.
RECURSIVE ParseMapping(_, _, _, _)
RECURSIVE ParseSequence(_, _, _)
ParseMapping(lines, i, col, first) ==
    IF i > Len(lines) THEN [entries |-> <<>>, next |-> i]
    ELSE LET line == lines[i]
             mine == IF first THEN line.dash /\ line.indent + 2 = col
                     ELSE ~line.dash /\ line.indent = col
             holds == /\ line.value.kind = "none"
                      /\ i + 1 <= Len(lines)
                      /\ lines[i + 1].dash /\ lines[i + 1].indent >= col
             items == ParseSequence(lines, i + 1, lines[i + 1].indent)
             value == IF holds THEN Block(items.items) ELSE line.value
             rest == ParseMapping(lines, IF holds THEN items.next ELSE i + 1, col, FALSE)
         IN  IF ~mine THEN [entries |-> <<>>, next |-> i]
             ELSE [entries |-> <<[key |-> line.key, value |-> value]>> \o rest.entries,
                   next |-> rest.next]

ParseSequence(lines, i, col) ==
    IF i > Len(lines) \/ ~(lines[i].dash /\ lines[i].indent = col)
        THEN [items |-> <<>>, next |-> i]
    ELSE LET item == ParseMapping(lines, i, col + 2, TRUE)
             rest == ParseSequence(lines, item.next, col)
         IN  [items |-> <<item.entries>> \o rest.items, next |-> rest.next]

YamlError == [ok |-> FALSE, data |-> <<>>]

\* yaml.load(text): the root mapping, or a YAMLError when a line stands at a
\* column no open block has
yaml_load(lines) ==
    LET root == ParseMapping(lines, 1, 0, FALSE)
    IN  IF root.next = Len(lines) + 1 THEN [ok |-> TRUE, data |-> root.entries]
        ELSE YamlError

\* The lines of a block mapping with its keys at column col; a sequence held
\* by a key of the root stands offsetOf[key] columns right of the key, any
\* other sequence `nested` columns.
RECURSIVE LayOutMapping(_, _, _, _, _)
RECURSIVE LayOutSequence(_, _, _, _)
LayOutMapping(entries, col, first, offsetOf, nested) ==
    Flatten([n \in DOMAIN entries |->
        LET entry == entries[n]
            opens == first /\ n = 1
            holds == entry.value.kind = "seq"
            offset == IF col = 0 /\ ~first THEN offsetOf[entry.key] ELSE nested
        IN  <<Line(IF opens THEN col - 2 ELSE col, opens, entry.key,
                   IF holds THEN NoValue ELSE entry.value)>>
            \o (IF holds
                   THEN LayOutSequence(entry.value.items, col + offset, offsetOf, nested)
                   ELSE <<>>)])

LayOutSequence(items, col, offsetOf, nested) ==
    Flatten([n \in DOMAIN items |->
                LayOutMapping(items[n], col + 2, TRUE, offsetOf, nested)])

RootKeys(data) == { data[n].key : n \in DOMAIN data }

\* yaml.dump(document) with the indents of build_yaml(profile)
yaml_dump(data, style) ==
    LayOutMapping(data, 0, FALSE,
                  [key \in RootKeys(data) |-> SequenceOffset(style)],
                  SequenceOffset(style))

\* load_document: the text is quoted, then parsed
LoadLines(raw) == yaml_load(quote_reference_bracket_scalars(raw))

\* _apply_top_level_sequence_indents: the block under a top-level key runs to
\* the next line that starts with a key and a colon at column 0; when its
\* first line is a "- " at another column than the recorded one, every line
\* of the block is moved by the difference.
BlockLength(lines) ==
    LET stops == { i \in DOMAIN lines : MatchesTopLevelKeyPrefix(lines[i]) }
    IN  IF stops = {} THEN Len(lines)
        ELSE (CHOOSE i \in stops : \A j \in stops : i <= j) - 1

ShiftBlock(block, key, top_level_sequence_indents) ==
    LET known == key \in DOMAIN top_level_sequence_indents
        desired_indent == top_level_sequence_indents[key]
        found == block # <<>> /\ MatchesSequenceLine(block[1])
        current_indent == block[1].indent
        delta == desired_indent - current_indent
        removable(line) == IF -delta < line.indent THEN -delta ELSE line.indent
    IN  IF ~known \/ ~found THEN block
        ELSE IF current_indent = desired_indent THEN block
        ELSE [i \in DOMAIN block |->
                [block[i] EXCEPT !.indent =
                    IF delta > 0 THEN @ + delta ELSE @ - removable(block[i])]]

RECURSIVE apply_top_level_sequence_indents(_, _)
apply_top_level_sequence_indents(raw, top_level_sequence_indents) ==
    IF raw = <<>> THEN <<>>
    ELSE IF ~MatchesTopLevelKeyLine(Head(raw))
        THEN <<Head(raw)>>
             \o apply_top_level_sequence_indents(Tail(raw), top_level_sequence_indents)
    ELSE LET n == BlockLength(Tail(raw))
             block == SubSeq(raw, 2, n + 1)
             rest == SubSeq(raw, n + 2, Len(raw))
         IN  <<Head(raw)>>
             \o ShiftBlock(block, Head(raw).key, top_level_sequence_indents)
             \o apply_top_level_sequence_indents(rest, top_level_sequence_indents)

\* _restore_unquoted_reference_bracket_scalars
restore_unquoted_reference_bracket_scalars(raw, original_unquoted_values) ==
    [i \in DOMAIN raw |->
        IF /\ MatchesQuotedKeyValueLine(raw[i])
           /\ <<raw[i].key, raw[i].value.text>> \in original_unquoted_values
            THEN [raw[i] EXCEPT !.value = Bracket(raw[i].value.text, FALSE)]
            ELSE raw[i]]

\* dump_document(document, format_profile=profile)
DumpLines(data, format_profile) ==
    restore_unquoted_reference_bracket_scalars(
        apply_top_level_sequence_indents(
            yaml_dump(data, format_profile.sequence_indent_style),
            format_profile.top_level_sequence_indents),
        format_profile.unquoted_reference_brackets)

\* dump(load(text)) with the profile detected in text, as the property test
\* and _run_once chain them; a text that does not parse raises.
RoundTrip(raw) ==
    LET document == LoadLines(raw)
    IN  IF ~document.ok THEN [ok |-> FALSE, text |-> <<>>]
        ELSE [ok |-> TRUE, text |-> DumpLines(document.data, YamlFormatProfile(raw))]

(***************************************************************************)
(* YAML I/O harness: documents of one to three top-level sections, written *)
(* with the list under each top-level key at column 0, 2 or 4 and the      *)
(* nested lists at the column of their key or two to the right.            *)
(***************************************************************************)
KeyId == <<"i", "d">>
KeyTo == <<"t", "o">>
KeyFrom == <<"f", "r", "o", "m">>
KeyChildren == <<"c", "h", "i", "l", "d", "r", "e", "n">>
KeyRelations == <<"r", "e", "l", "a", "t", "i", "o", "n", "s">>
KeyResources == <<"r", "e", "s", "o", "u", "r", "c", "e", "s">>
KeyPerspectives == <<"p", "e", "r", "s", "p", "e", "c", "t", "i", "v", "e", "s">>
KeyDescription == <<"d", "e", "s", "c", "r", "i", "p", "t", "i", "o", "n">>
KeyDotted == <<"x", ".", "y">>

Entry(key, value) == [key |-> key, value |-> value]

BracketA == <<"[", "a", "]">>

Sections ==
    { Entry(KeyResources,
            Block(<< << Entry(KeyId, Plain(IdA)),
                        Entry(KeyChildren, Block(<< <<Entry(KeyId, Plain(IdB))>> >>)) >>,
                     << Entry(KeyId, Plain(IdP)) >> >>)),
      Entry(KeyDescription, Plain(<<"d">>)),
      Entry(KeyDotted, Plain(<<"1">>)) }
        \cup { Entry(KeyPerspectives,
                     Block(<< << Entry(KeyId, Plain(IdV)),
                                 Entry(KeyRelations,
                                       Block(<< << Entry(KeyFrom, Bracket(BracketA, quoted)),
                                                   Entry(KeyTo, Plain(IdB)) >> >>)) >> >>)) :
                 quoted \in BOOLEAN }

MaxSections == 3

YamlDocuments ==
    { data \in SeqsUpTo(Sections, MaxSections) \ {<<>>} :
        \A i, j \in DOMAIN data : i # j => data[i].key # data[j].key }

TopLevelColumns == {0, 2, 4}

YamlTexts ==
    UNION { { LayOutMapping(data, 0, FALSE, offsetOf, nested) :
                offsetOf \in [RootKeys(data) -> TopLevelColumns], nested \in {0, 2} } :
            data \in YamlDocuments }

InitYaml ==
    /\ Idle
    /\ mdoc = <<>> /\ mprev = <<>> /\ mlast = NotCalled /\ rw = <<>>
    /\ pf \in { [raw |-> raw, first |-> <<>>, second |-> <<>>, trips |-> 0] :
                  raw \in YamlTexts }

\* detect_format_profile, load_document and dump_document on the text
FirstRoundTrip ==
    /\ pf.trips = 0
    /\ pf' = [pf EXCEPT !.first = RoundTrip(pf.raw), !.trips = 1]
    /\ UNCHANGED <<runnerVars, engineVars, rw>>

\* the same three calls on the text the first dump returned
SecondRoundTrip ==
    /\ pf.trips = 1 /\ pf.first.ok
    /\ pf' = [pf EXCEPT !.second = RoundTrip(pf.first.text), !.trips = 2]
    /\ UNCHANGED <<runnerVars, engineVars, rw>>

NextYaml == FirstRoundTrip \/ SecondRoundTrip

SpecYaml == InitYaml /\ [][NextYaml]_vars

(***************************************************************************)
(* Claims about the mutation engine and the rewriter.                      *)
(***************************************************************************)

\* C7: whenever a mutation-engine operation raises because a precondition
\* fails, the in-memory document is structurally identical to what it was
\* immediately before the call (no key set or removed, no node moved, no
\* container created).
C7_RaisingCallLeavesDocumentUntouched == mlast.raised => mdoc = mprev

\* Every token of the value before that equals old is new at the same place
\* after, and old is no token of the value after.
TokensReplaced(valueBefore, valueAfter, old, new) ==
    LET tb == Tokens(valueBefore)
        ta == Tokens(valueAfter)
    IN  /\ old \notin Range(ta)
        /\ \A j \in DOMAIN tb : tb[j] = old => (j \in DOMAIN ta /\ ta[j] = new)

\* C9: after a successful rename_resource_id(old, new) the resource's id is
\* new, and in every reference-bearing field (relations from/to/via, overrides
\* resourceId/parentId, aliases for, walkthrough keys, sequence start and step
\* targets, nested sub-sequences included) and in every string value of every
\* context each exact-token occurrence of old has been replaced by new, so
\* that no reference field still contains old as a token.
C9_RenameIdRewritesEveryToken ==
    (mlast.op = "rename_resource_id" /\ ~mlast.raised) =>
        LET old == mlast.args.old
            new == mlast.args.new
            fb == iter_reference_fields(mprev, FALSE)
            fa == iter_reference_fields(mdoc, FALSE)
            cb == SeqOf(mprev, "contexts")
            ca == SeqOf(mdoc, "contexts")
        IN  /\ build_resource_id_index(mdoc, new) = build_resource_id_index(mprev, old)
            /\ build_resource_id_index(mdoc, old) = <<>>
            /\ Len(fa) = Len(fb)
            /\ \A i \in DOMAIN fb :
                  /\ fa[i].container = fb[i].container
                  /\ fa[i].key = fb[i].key
                  /\ TokensReplaced(fb[i].value, fa[i].value, old, new)
            /\ Len(ca) = Len(cb)
            /\ \A i \in DOMAIN cb :
                  \A key \in DOMAIN cb[i] \cap ContextStringKeys :
                      /\ key \in DOMAIN ca[i]
                      /\ TokensReplaced(cb[i][key], ca[i][key], old, new)

\* An occurrence of old at position i of raw with a boundary character
\* immediately before or immediately after it.
Shielded(raw, old, i) ==
    /\ OccursAt(raw, old, i)
    /\ \/ (i > 1 /\ raw[i - 1] \in IDENT_BOUNDARY_CHARS)
       \/ (i + Len(old) <= Len(raw) /\ raw[i + Len(old)] \in IDENT_BOUNDARY_CHARS)

\* C10: replace_reference_identifier(s, old, new) never replaces an occurrence
\* of old whose neighbour is in the identifier-boundary set: a string all of
\* whose occurrences of old are shielded is returned unchanged, and in
\* particular old with one boundary character prepended or appended is
\* returned unchanged.
C10_BoundaryLaw ==
    rw.called =>
        /\ (\A i \in DOMAIN rw.raw : OccursAt(rw.raw, rw.old, i)
                                        => Shielded(rw.raw, rw.old, i))
              => rw.out = rw.raw
        /\ (\E c \in IDENT_BOUNDARY_CHARS :
                rw.raw = <<c>> \o rw.old \/ rw.raw = rw.old \o <<c>>)
              => rw.out = rw.raw

\* The token list of before with every token equal to old replaced by new.
TokensWithOldReplaced(before_, old, new) ==
    LET tb == Tokens(before_)
    IN  [j \in DOMAIN tb |-> IF tb[j] = old THEN new ELSE tb[j]]

\* C11: exact-token substitution: for any reference expression and any
\* old /= new with new not among its tokens, replace_reference_identifier
\* returns an expression whose token list is the original one with exactly
\* the tokens equal to old replaced by new and every other token unchanged,
\* and old is no token of the result.
C11_ExactTokenSubstitution ==
    (rw.called /\ rw.old # rw.new /\ ~contains_identifier(rw.raw, rw.new)) =>
        /\ rw.out # ReError
        /\ Tokens(rw.out) = TokensWithOldReplaced(rw.raw, rw.old, rw.new)
        /\ ~contains_identifier(rw.out, rw.old)

\* C12: the rewriter is idempotent: for all strings s and identifiers old,
\* new, rewriting the result again with the same old and new returns the
\* result unchanged.
C12_Idempotent == rw.second = "again" => rw.out2 = rw.out

\* C13: inverse law: for any string s in which new does not occur as a token,
\* rewriting old to new and then new to old restores the original tokens of s.
C13_InverseRestoresTokens ==
    (rw.second = "back" /\ ~contains_identifier(rw.raw, rw.new)) =>
        /\ rw.out2 # ReError
        /\ Tokens(rw.out2) = Tokens(rw.raw)

(***************************************************************************)
(* Claims about single operations inside a command.                        *)
(***************************************************************************)
\* The operation command p is about to apply.
NextOp(p) == cmd[p].ops[k[p] + 1]

\* op moves a resource under itself (depth 0) or under a node of its own
\* subtree at the given depth below it.
MovesIntoOwnSubtree(document, op, depth) ==
    /\ op.kind = "move.resource"
    /\ FoundById(document, op.id) /\ FoundById(document, op.newParent)
    /\ LET source == get_single_resource_by_id(document, op.id)
           target == get_single_resource_by_id(document, op.newParent)
       IN  IsPrefix(source, target) /\ Len(target) = Len(source) + depth

\* C14: move_resource rejects moving a node under itself and under any of
\* its own descendants at any depth: the call raises, the resource forest is
\* unchanged, and the command ends without having written the file.
C14_MoveIntoOwnSubtreeRejected ==
    /\ [][\A p \in Procs :
            (/\ pc[p] = "apply" /\ k[p] < Len(cmd[p].ops) /\ StepBy(p)
             /\ \E depth \in 0..2 : MovesIntoOwnSubtree(doc[p], NextOp(p), depth)) =>
                /\ outcome'[p] = "failed" /\ pc'[p] = "exit"
                /\ doc'[p] = doc[p]
                /\ file' = file]_vars
    /\ [](\A p \in Procs :
            (/\ pc[p] \in {"apply", "exit", "done"} /\ k[p] < Len(cmd[p].ops)
             /\ \E depth \in 0..2 : MovesIntoOwnSubtree(doc[p], NextOp(p), depth)) =>
                /\ ~wrote[p]
                /\ pc[p] = "done" => outcome[p] = "failed")

C14_Witness ==
    \E p, q, r \in Procs :
        /\ pc[p] = "done" /\ outcome[p] = "failed" /\ ~cmd[p].dry
        /\ MovesIntoOwnSubtree(doc[p], NextOp(p), 2)
        /\ file = atStart[p]
        /\ pc[q] = "done" /\ outcome[q] = "failed"
        /\ MovesIntoOwnSubtree(doc[q], NextOp(q), 0)

\* The nodes strictly below the node at path, at any depth.
DescendantsOf(document, path) ==
    { q \in Range(build_resource_locations(document)) :
        IsPrefix(path, q) /\ Len(q) > Len(path) }

\* Some descendant of the node at path carries an explicit id that is an id
\* of the document.
DescendantIdCollides(document, path) ==
    \E q \in DescendantsOf(document, path) :
        /\ HasExplicitId(NodeAt(document, q))
        /\ Strip(NodeAt(document, q)["id"]) \in ExplicitIds(document)

\* The arguments of the last clone_resource call are acceptable apart from
\* what the descendants of the source carry.
CloneArgsAcceptable ==
    /\ mlast.op = "clone_resource"
    /\ FoundById(mprev, mlast.args.id)
    /\ build_resource_id_index(mprev, mlast.args.new) = <<>>
    /\ \/ mlast.args.parent = NoneStr
       \/ is_none_token(mlast.args.parent)
       \/ FoundById(mprev, mlast.args.parent)

\* C15: clone_resource with children rejects the operation, leaving the
\* document unchanged, if any descendant of the source has an explicit id
\* that collides with an id already in the document; a shallow clone copies
\* no descendants and is never rejected on account of descendant ids.
C15_CloneRejectsCollidingDescendants ==
    mlast.op = "clone_resource" =>
        LET source == get_single_resource_by_id(mprev, mlast.args.id)
        IN  /\ (/\ mlast.args.withChildren
                 /\ FoundById(mprev, mlast.args.id)
                 /\ DescendantIdCollides(mprev, source))
                    => (mlast.raised /\ mdoc = mprev)
            /\ mlast.raised => mdoc = mprev
            /\ (CloneArgsAcceptable /\ ~mlast.args.withChildren) =>
                    /\ ~mlast.raised
                    /\ FoundById(mdoc, mlast.args.new)
                    /\ ~Has(NodeAt(mdoc, get_single_resource_by_id(mdoc, mlast.args.new)),
                             "children")
                    /\ Len(build_resource_locations(mdoc))
                          = Len(build_resource_locations(mprev)) + 1
            /\ (/\ CloneArgsAcceptable /\ mlast.args.withChildren
                 /\ ~DescendantIdCollides(mprev, source)) => ~mlast.raised

C15_Witness ==
    /\ mlast.op = "clone_resource" /\ mlast.args.withChildren /\ mlast.raised
    /\ CloneArgsAcceptable
    /\ mprev = DocDeep /\ mlast.args.id = IdP
    /\ \E q \in DescendantsOf(mprev, get_single_resource_by_id(mprev, IdP)) :
          Len(q) = 3 /\ NodeAt(mprev, q)["id"] = IdA

\* The list that holds the node at path: the root list or a children list.
ContainerOf(document, path) ==
    IF Len(path) = 1 THEN document["resources"]
    ELSE NodeAt(document, ParentPath(path))["children"]

\* document with the list that holds the node at path replaced by list.
WithContainer(document, path, list) ==
    IF Len(path) = 1 THEN SetKey(document, "resources", list)
    ELSE ReplaceAt(document, ParentPath(path),
                   SetKey(NodeAt(document, ParentPath(path)), "children", list))

\* C16: delete_resource refuses to delete a resource that has a non-empty
\* children list unless subtree deletion is confirmed; on refusal it raises
\* and the document is unchanged, and on success exactly the addressed node,
\* with its subtree, is removed from its parent container.
C16_DeleteGuardsChildren ==
    (mlast.op = "delete_resource" /\ FoundById(mprev, mlast.args.id)) =>
        LET path == get_single_resource_by_id(mprev, mlast.args.id)
            container == ContainerOf(mprev, path)
            index == path[Len(path)]
            has_children == SeqOf(NodeAt(mprev, path), "children") # <<>>
        IN  IF has_children /\ ~mlast.args.subtree
                THEN mlast.raised /\ mdoc = mprev
                ELSE /\ ~mlast.raised
                     /\ mdoc = WithContainer(mprev, path,
                                   SubSeq(container, 1, index - 1)
                                       \o SubSeq(container, index + 1, Len(container)))
                     /\ build_resource_id_index(mdoc, mlast.args.id) = <<>>
                     /\ Len(build_resource_locations(mdoc))
                           = Len(build_resource_locations(mprev))
                               - 1 - Cardinality(DescendantsOf(mprev, path))

C16_Witness ==
    /\ mlast.op = "delete_resource" /\ mlast.args.id = IdP /\ mprev = DocDeep
    /\ ~mlast.args.subtree /\ mlast.raised /\ mdoc = DocDeep

\* op renames a resource id to an id some resource of document carries.
RenamesToExistingId(document, op) ==
    /\ op.kind = "rename.resource-id"
    /\ op.from # op.to
    /\ \E path \in Range(build_resource_locations(document)) :
          /\ Has(NodeAt(document, path), "id")
          /\ Strip(NodeAt(document, path)["id"]) = op.to

\* C17: rename_resource_id rejects the rename when the target id already
\* exists in the document: it raises before changing anything, and the
\* command ends without having written the file.
C17_RenameToExistingIdRejected ==
    /\ [][\A p \in Procs :
            (/\ pc[p] = "apply" /\ k[p] < Len(cmd[p].ops) /\ StepBy(p)
             /\ RenamesToExistingId(doc[p], NextOp(p))) =>
                /\ outcome'[p] = "failed" /\ pc'[p] = "exit"
                /\ doc'[p] = doc[p]
                /\ file' = file]_vars
    /\ [](\A p \in Procs :
            (/\ pc[p] \in {"apply", "exit", "done"} /\ k[p] < Len(cmd[p].ops)
             /\ RenamesToExistingId(doc[p], NextOp(p))) =>
                /\ ~wrote[p]
                /\ pc[p] = "done" => outcome[p] = "failed")

C17_Witness ==
    \E p \in Procs :
        /\ pc[p] = "done" /\ outcome[p] = "failed" /\ ~cmd[p].dry
        /\ RenamesToExistingId(doc[p], NextOp(p))
        /\ doc[p] = loaded[p] /\ file = atStart[p]

\* The resource id/name index: every id and every name of a resource.
ResourceIdsAndNames(document) ==
    LET nodes == { NodeAt(document, path) :
                     path \in Range(build_resource_locations(document)) }
    IN  { Strip(n["id"]) : n \in { m \in nodes : Has(m, "id") } }
        \cup { Strip(n["name"]) : n \in { m \in nodes : Has(m, "name") } }

\* The alias names declared by the perspectives identified as `perspective`.
AliasTable(document, perspective) ==
    { a["alias"] :
        a \in UNION { Range(SeqOf(q, "aliases")) :
                        q \in { r \in Range(SeqOf(document, "perspectives")) :
                                   perspective_identifier(r) = perspective } } }

\* The last validate_document call reported token as broken in the field.
ReportedBroken(field, token) ==
    \E i \in DOMAIN mlast.args.issues :
        mlast.args.issues[i]
            = Issue("broken-reference", field.container, field.key, token)

\* C18: validate_document reports broken-reference for a token of a
\* reference field exactly when the token is plain (not special, not
\* wildcard) and is absent from the resource id/name index, from the alias
\* table of the field's own perspective and from any matching declared import
\* namespace; an unresolved namespaced token is reported in strict mode and
\* is not reported in ilograph-native mode.
C18_BrokenReferenceExactly ==
    mlast.op = "validate_document" =>
        \A field \in Range(iter_reference_fields(mdoc, FALSE)) :
            \A component \in Range(parse_reference_components(field.value)) :
                ReportedBroken(field, component.token) <=>
                    /\ ~component.special /\ ~component.wildcard
                    /\ component.token \notin ResourceIdsAndNames(mdoc)
                    /\ component.token \notin AliasTable(mdoc, field.perspective)
                    /\ component.namespaced =>
                          /\ NamespaceOf(component.token)
                                \notin build_import_namespaces(mdoc)
                          /\ mlast.args.mode = "strict"

ResolveStatuses ==
    {"resolved", "ambiguous", "alias", "special", "wildcard", "imported-namespace",
     "unresolved-namespace", "unresolved", "empty"}

\* The resources that have token as their id or as their name.
ResourcesNamed(document, token) ==
    { path \in Range(build_resource_locations(document)) :
        LET node == NodeAt(document, path)
        IN  \/ Has(node, "id") /\ Strip(node["id"]) = token
            \/ Has(node, "name") /\ Strip(node["name"]) = token }

\* C19: resolve_reference gives each parsed token exactly one status out of
\* the nine; a plain token that is not an alias is resolved exactly when
\* exactly one resource has it as id or name, ambiguous exactly when two or
\* more resources do, with all their paths reported, and unresolved exactly
\* when none does.
C19_ResolveClassifies ==
    mlast.op = "resolve_reference" =>
        \A i \in DOMAIN mlast.args.rows :
            LET row == mlast.args.rows[i]
                named == ResourcesNamed(mdoc, row.token)
                plain == row.status \notin {"special", "wildcard", "alias", "empty",
                                            "imported-namespace", "unresolved-namespace"}
            IN  /\ row.status \in ResolveStatuses
                /\ plain =>
                      /\ row.status = "resolved" <=> Cardinality(named) = 1
                      /\ row.status = "ambiguous" <=> Cardinality(named) >= 2
                      /\ row.status = "unresolved" <=> named = {}
                      /\ row.status = "ambiguous" => Range(row.details) = named

\* The perspectives a target addresses, as indexes of the perspectives list.
TargetedPerspectives(document, target) ==
    { i \in DOMAIN SeqOf(document, "perspectives") :
        LET identifier == perspective_identifier(document["perspectives"][i])
        IN  identifier # NoneStr /\ (target.all \/ identifier \in Range(target.ids)) }

\* The template as rendered for the target contexts.
RenderedTemplates(template, contexts) ==
    IF contexts = NoneStr THEN {template}
    ELSE { render_template(template, contexts[i]) : i \in DOMAIN contexts }

\* relation has every key of the rendered template with the same value.
TemplateFits(relation, rendered) ==
    \A key \in DOMAIN rendered :
        IF key = "secondary"
            THEN rendered[key] = (IF Has(relation, key) THEN relation[key] ELSE FALSE)
            ELSE Has(relation, key) /\ relation[key] = rendered[key]

RelationsOf(document, i) == SeqOf(document["perspectives"][i], "relations")

\* A relation that was in a targeted perspective before the add already
\* matches the template.
PreexistingMatch ==
    \E i \in TargetedPerspectives(mprev, mlast.args.target) :
        \E j \in DOMAIN RelationsOf(mprev, i) :
            \E rendered \in RenderedTemplates(mlast.args.template, mlast.args.contexts) :
                TemplateFits(RelationsOf(mprev, i)[j], rendered)

\* The remove returned the count of the add and every targeted perspective
\* has the relation list it had before the add.
AddThenRemoveIsSymmetric ==
    /\ mlast.args.removed = mlast.args.added
    /\ \A i \in TargetedPerspectives(mprev, mlast.args.target) :
          RelationsOf(mdoc, i) = RelationsOf(mprev, i)

\* C20 as stated: for any non-empty set of target perspectives and any set
\* of target contexts, add_relation_many followed by
\* remove_relations_match_many with the same template and targets removes
\* exactly the relations that were added and leaves every targeted
\* perspective's relation list equal to what it was before the add.
C20_AddRemoveSymmetric_AsStated ==
    (mlast.op = "remove_relations_match_many" /\ ~mlast.raised)
        => AddThenRemoveIsSymmetric

\* C20, amended: the symmetry holds when no relation that was already in a
\* targeted perspective matches the rendered template: the add appends one
\* relation per targeted perspective and distinct rendering, the remove
\* returns the same count and restores every targeted relation list; it
\* raises only when nothing was added and a match is required, and then it
\* changes nothing.
C20_AddRemoveSymmetric ==
    (mlast.op = "remove_relations_match_many" /\ ~PreexistingMatch) =>
        /\ mlast.args.added
              = Cardinality(TargetedPerspectives(mprev, mlast.args.target))
                  * Cardinality(RenderedTemplates(mlast.args.template,
                                                  mlast.args.contexts))
        /\ ~mlast.raised => AddThenRemoveIsSymmetric
        /\ mlast.raised =>
              /\ mlast.args.added = 0 /\ mlast.args.requireMatch
              /\ mdoc = mlast.args.afterAdd

C20_Witness ==
    /\ mlast.op = "remove_relations_match_many" /\ ~mlast.raised /\ ~PreexistingMatch
    /\ mlast.args.added = 4 /\ mlast.args.removed = 4
    /\ mdoc # mlast.args.afterAdd
    /\ \E i \in TargetedPerspectives(mprev, mlast.args.target) :
          RelationsOf(mprev, i) # <<>> /\ RelationsOf(mdoc, i) = RelationsOf(mprev, i)

(***************************************************************************)
(* Claims about the match-many operations.                                 *)
(***************************************************************************)
\* The call's target, contexts and templates are accepted: the perspectives
\* and contexts exist and every template renders.
MatchArgsAccepted ==
    /\ ~TargetsRaise(mprev, mlast.args.target, mlast.args.contexts, mlast.args.match)
    /\ mlast.op = "edit_match" =>
          /\ mlast.args.clear \subseteq RELATION_EDITABLE_FIELDS
          /\ mlast.args.set # NoTemplate =>
                ~RenderRaises(mlast.args.set, mlast.args.contexts)

\* The relations of the targeted perspectives that fit the match template,
\* as (perspective, position) pairs.
MatchingRelations ==
    LET rendered == RenderedTemplates(mlast.args.match, mlast.args.contexts)
    IN  { pair \in TargetedPerspectives(mprev, mlast.args.target) \X (1..8) :
            /\ pair[2] <= Len(RelationsOf(mprev, pair[1]))
            /\ \E t \in rendered : TemplateFits(RelationsOf(mprev, pair[1])[pair[2]], t) }

MatchManyLaw(ops) ==
    (mlast.op \in ops /\ MatchArgsAccepted) =>
        IF mlast.args.requireMatch
            THEN /\ mlast.raised <=> MatchingRelations = {}
                 /\ mlast.raised => mdoc = mprev
            ELSE MatchingRelations = {} => (~mlast.raised /\ mdoc = mprev)

\* C21: with require_match, remove_relations_match_many and
\* edit_relations_match_many raise exactly when no relation of the targeted
\* perspectives matches the match template, and then the document is
\* unchanged; without require_match zero matches is a silent no-op.
C21_RequireMatchRaisesExactlyOnZeroMatches == MatchManyLaw({"remove_match", "edit_match"})

(***************************************************************************)
(* Claims about how a run ends.                                            *)
(***************************************************************************)
\* The step in which _run_once decides how run p ends: the mutator has
\* returned and the run leaves the apply position.
Decides(p) == pc[p] = "apply" /\ k[p] = Len(cmd[p].ops) /\ pc'[p] # "apply"

SerializedUnchanged(p) ==
    dump_document(doc[p], detect_format_profile(before[p])) = before[p]

\* C22: a run whose mutation reports unchanged, or whose serialized result
\* equals the text read, ends without writing: it never reaches the write and
\* leaves the file as it is; when the mutation reports unchanged the run ends
\* "no changes" with neither validation nor serialization (a document that
\* strict validation rejects ends "no changes" too, not "invalid").
C22_NoWriteWhenUnchanged ==
    /\ [](\A p \in Procs : outcome[p] \in {"nochange", "unchanged"} => ~wrote[p])
    /\ [][\A p \in Procs :
            (Decides(p) /\ (~chg[p] \/ SerializedUnchanged(p))) =>
                /\ pc'[p] = "exit"
                /\ file' = file
                /\ ~chg[p] => outcome'[p] = "nochange"]_vars

\* One run ended "no changes" on a document that strict validation rejects,
\* the other found its serialized result equal to the text it read.
C22_Witness ==
    \E p, q \in Procs :
        /\ pc[p] = "done" /\ outcome[p] = "nochange" /\ ~wrote[p]
        /\ ensure_document_valid_for_write_raises(doc[p])
        /\ pc[q] = "done" /\ outcome[q] = "unchanged" /\ ~wrote[q]
        /\ chg[q]

\* resource_id names exactly one resource, and it is the last child of the
\* one resource that new_parent_id names.
AlreadyLastChild(document, resource_id, new_parent_id) ==
    /\ Cardinality({ l \in Range(build_resource_locations(document)) :
                       resource_identifier(NodeAt(document, l)) \in
                           {resource_id, new_parent_id} }) = 2
    /\ \E l \in Range(build_resource_locations(document)) :
          LET parent == NodeAt(document, l)
          IN  /\ parent["id"] = new_parent_id
              /\ SeqOf(parent, "children") # <<>>
              /\ LET last == parent["children"][Len(parent["children"])]
                 IN  Has(last, "id") /\ last["id"] = resource_id

\* The document with the `style` key of the resource resource_id dropped.
WithoutStyleOf(document, resource_id) ==
    LET l == CHOOSE l \in Range(build_resource_locations(document)) :
                 resource_identifier(NodeAt(document, l)) = resource_id
    IN  ReplaceAt(document, l, [key \in DOMAIN NodeAt(document, l) \ {"style"} |->
                                   NodeAt(document, l)[key]])

\* C23: move_resource of a node that is already the last child of the target
\* parent returns unchanged and leaves the document as it was; with the
\* inherit-style flag its only effect is dropping the node's own style block
\* (changed exactly when there was one).  A command made of that move with no
\* inherit-style flag ends "no changes", whatever strict validation would say
\* of the document.
C23_MoveOfLastChildIsNoOp ==
    [][\A p \in Procs :
        /\ ( /\ pc[p] = "apply" /\ k[p] < Len(cmd[p].ops) /\ StepBy(p)
             /\ NextOp(p).kind = "move.resource"
             /\ AlreadyLastChild(doc[p], NextOp(p).id, NextOp(p).newParent) ) =>
              /\ pc'[p] = "apply" /\ k'[p] = k[p] + 1
              /\ IF NextOp(p).inheritStyleFromParent
                    THEN /\ doc'[p] = WithoutStyleOf(doc[p], NextOp(p).id)
                         /\ chg'[p] = (chg[p] \/ doc'[p] # doc[p])
                    ELSE /\ doc'[p] = doc[p]
                         /\ chg'[p] = chg[p]
        /\ ( /\ Decides(p)
             /\ cmd[p].ops \in { <<OpMoveAUnderP>> }
             /\ AlreadyLastChild(loaded[p], IdA, IdP) ) =>
              /\ outcome'[p] = "nochange" /\ pc'[p] = "exit" /\ file' = file]_vars

\* One run moved a styled last child with the inherit-style flag, the other
\* ended "no changes" on a document that strict validation rejects.
C23_Witness ==
    \E p, q \in Procs :
        /\ cmd[p].ops = <<OpMoveAUnderPInherit>> /\ k[p] = 1
        /\ AlreadyLastChild(loaded[p], IdA, IdP)
        /\ doc[p] # loaded[p]
        /\ cmd[q].ops = <<OpMoveAUnderP>> /\ outcome[q] = "nochange"
        /\ AlreadyLastChild(loaded[q], IdA, IdP)
        /\ ensure_document_valid_for_write_raises(loaded[q])

(***************************************************************************)
(* Claims about what a rename of a resource id touches.                    *)
(***************************************************************************)
\* C24: instanceOf is not a reference-bearing field: a successful
\* rename_resource_id(old, new) leaves the instanceOf value of every resource
\* as it was, also when that value has old as a token.
C24_RenameIdKeepsInstanceOf ==
    (mlast.op = "rename_resource_id" /\ ~mlast.raised) =>
        LET lb == build_resource_locations(mprev)
        IN  \A i \in DOMAIN lb :
                LET nb == NodeAt(mprev, lb[i])
                    na == NodeAt(mdoc, lb[i])
                IN  Has(nb, "instanceOf") =>
                        (Has(na, "instanceOf") /\ na["instanceOf"] = nb["instanceOf"])

(***************************************************************************)
(* Claims about the splitter.                                              *)
(***************************************************************************)
\* C25: for every list of well-formed segments, splitting the segments
\* joined with ", " returns the list: split_reference_list(", ".join(parts))
\* = parts.
C25_SplitRoundTrip == pf.called => pf.out = pf.parts

\* Two segments, each with a comma nested in a group, came back as given.
C25_Witness ==
    /\ pf.called
    /\ Len(pf.parts) = 2
    /\ \A i \in 1..2 : "," \in Range(pf.parts[i])
    /\ pf.out = pf.parts

\* The names of the contexts, in document order.
ContextNames(document) ==
    LET contexts == SeqOf(document, "contexts")
    IN  [i \in DOMAIN contexts |-> Get(contexts[i], "name")]

\* C27: context names stay unique: from a document whose context names are
\* pairwise distinct, no successful operation leaves two contexts with the
\* same name.
C27_ContextNamesStayUnique ==
    (~HasDuplicates(ContextNames(mprev)) /\ ~mlast.raised) =>
        ~HasDuplicates(ContextNames(mdoc))

\* the nodes of a resource list and of everything below it, each with the keys
\* of its own (children hold the nodes below, style is what an inheriting
\* move drops)
OwnKeys(node) == [key \in DOMAIN node \ {"children", "style"} |-> node[key]]

RECURSIVE NodesOf(_)
NodesOf(list) ==
    Flatten([i \in DOMAIN list |->
                <<OwnKeys(list[i])>> \o NodesOf(SeqOf(list[i], "children"))])

SameNodes(before_, after) ==
    LET old == NodesOf(SeqOf(before_, "resources"))
        new == NodesOf(SeqOf(after, "resources"))
    IN  /\ Len(old) = Len(new)
        /\ \A node \in Range(old) \cup Range(new) : Count(old, node) = Count(new, node)

MoveOps == {"move_resource", "move_many", "move_sequence"}

\* C28: after a move_resource call, a move_many call (which moves to the root
\* under a none token) or two such calls in a row, whether the call returned
\* or raised, the resources are a forest of the same nodes as before: every
\* node of the document before is in the document after exactly once, and
\* no subtree left the forest by being attached inside itself.
C28_MovesPreserveForest ==
    mlast.op \in MoveOps => SameNodes(mprev, mdoc)

\* a node was moved to another parent and a second move then raised, and a
\* move_many raised after it had moved its first node
C28_Witness ==
    \/ /\ mlast.op = "move_sequence" /\ mlast.raised
       /\ mlast.args.between # mprev /\ mdoc = mlast.args.between
       /\ SameNodes(mprev, mdoc)
    \/ /\ mlast.op = "move_many" /\ mlast.raised /\ mdoc # mprev
       /\ SameNodes(mprev, mdoc)

\* the rows of the tokens of a reference field, resolved in the document with
\* the aliases of the perspective that holds the field
RowsOfField(document, field) ==
    resolve_reference(document, field.value, field.perspective)

\* every token of the field that resolved to one resource in `old` resolves
\* to the resource at the same place in `new`
KeepsMeaning(old, new, fieldBefore, fieldAfter) ==
    LET rowsBefore == RowsOfField(old, fieldBefore)
        rowsAfter == RowsOfField(new, fieldAfter)
    IN  \A j \in DOMAIN rowsBefore :
            rowsBefore[j].status = "resolved" =>
                /\ j \in DOMAIN rowsAfter
                /\ rowsAfter[j].status = "resolved"
                /\ rowsAfter[j].details = rowsBefore[j].details

\* C29: after a rename_resource_id call that returned, every token of every
\* reference field that resolved to exactly one resource before the call
\* resolves, at the same position of the same field, to exactly that resource
\* (the rename moves no resource, so it is the resource at the same path).
C29_RenameIdKeepsReferenceMeaning ==
    (mlast.op = "rename_resource_id" /\ ~mlast.raised) =>
        LET fieldsBefore == iter_reference_fields(mprev, TRUE)
            fieldsAfter == iter_reference_fields(mdoc, TRUE)
        IN  /\ Len(fieldsAfter) = Len(fieldsBefore)
            /\ \A i \in DOMAIN fieldsBefore :
                   KeepsMeaning(mprev, mdoc, fieldsBefore[i], fieldsAfter[i])

\* C30: a command that wrote the file wrote a text made from the document
\* parsed out of the content it had read as its snapshot: the document it
\* loaded is the one load_document yields for the expected-before text, also
\* when the file was saved by another program between the two reads.
C30_WrittenDocumentIsParsedFromSnapshot ==
    \A p \in Procs : wrote[p] => loaded[p] = load_document(before[p])

\* C26: for every loadable text, detecting the profile of the first dump,
\* loading it and dumping it again yields the first dump: the second round
\* trip does not raise and its text equals the text of the first.
C26_SecondRoundTripIsIdentical ==
    pf.trips = 2 => pf.second = pf.first

=============================================================================
